---- MODULE Spec2Model ----
(***************************************************************************)
(* Model of redpipy's analog acquisition layer (src/src/redpipy/analog.py):*)
(* the RPAnalog controller, the Data result container with its cached      *)
(* derived vectors, the two readers (ReadDataAcq, ReadDataAcqAxi) and the  *)
(* acquisition hardware as seen through the rpwrap driver calls.           *)
(*                                                                         *)
(* The program is single threaded: one operation runs at a time (pc).      *)
(* Blocking polling loops (wait_until_done) are modelled one poll per step *)
(* so that the hardware, which runs concurrently, can change between two   *)
(* polls.  Every driver call can fail with RPPError: an operation picks    *)
(* the position f of the failing call (0: none fails).  RPPError is a hard *)
(* fault: the caller is followed up to the first one.  The caller enables  *)
(* channels and configures the timebase before its first acquisition.      *)
(***************************************************************************)
EXTENDS Integers, Sequences, FiniteSets, TLC

\* ------------------------------------------------------------------ bounds
MaxResults == 2

\* --------------------------------------------------------------- constants
ADC_BUFFER_SIZE == 16384

\* Samples per second at decimation 1.
MAXIMUM_SAMPLING_RATE == 125000000

\* The reserved DMA region the driver reports (acq_axi.get_memory_region).
MemStart == 16777216
MemSize == 1000000

SampleChoices == {1024, 16385, 300000}

Vectors == {"time_raw", "time", "ch1_raw", "ch1", "ch2_raw", "ch2"}

\* ------------------------------------------------------------------- tables
\* dict(items): a later item replaces an earlier one with the same key.
RECURSIVE DictOf(_)
DictOf(items) ==
    IF items = <<>> THEN [k \in {} |-> 0]
    ELSE LET rest == DictOf(SubSeq(items, 1, Len(items) - 1))
             last == items[Len(items)]
         IN [k \in DOMAIN rest \cup {last[1]} |->
               IF k = last[1] THEN last[2] ELSE rest[k]]

\* TwoWayDict(d): _d = d and _inv = {v: k for k, v in d.items()}.
TwoWayDict(items) ==
    [d |-> DictOf(items),
     inv |-> DictOf([i \in 1 .. Len(items) |-> <<items[i][2], items[i][1]>>])]

\* constants.Decimation: each member is the rp constant of its factor.
Decimation ==
    [DEC_1 |-> 1, DEC_2 |-> 2, DEC_4 |-> 4, DEC_8 |-> 8, DEC_16 |-> 16,
     DEC_32 |-> 32, DEC_64 |-> 64, DEC_128 |-> 128, DEC_256 |-> 256,
     DEC_512 |-> 512, DEC_1024 |-> 1024, DEC_2048 |-> 2048,
     DEC_4096 |-> 4096, DEC_8192 |-> 8192, DEC_16384 |-> 16384,
     DEC_32768 |-> 32768, DEC_65536 |-> 65536]

DECIMATION_VALUES ==
    {1, 2, 4, 8, 16, 32, 64, 128, 256, 512, 1024, 2048, 4096, 8192, 16384,
     32768, 65536}

DECIMATION_MAP ==
    TwoWayDict(<<
        <<1, Decimation.DEC_1>>,
        <<2, Decimation.DEC_2>>,
        <<4, Decimation.DEC_4>>,
        <<8, Decimation.DEC_8>>,
        <<16, Decimation.DEC_16>>,
        <<32, Decimation.DEC_32>>,
        <<64, Decimation.DEC_64>>,
        <<128, Decimation.DEC_128>>,
        <<512, Decimation.DEC_512>>,
        <<1024, Decimation.DEC_1024>>,
        <<2048, Decimation.DEC_2048>>,
        <<4096, Decimation.DEC_4096>>,
        <<8192, Decimation.DEC_8192>>,
        <<16384, Decimation.DEC_16384>>,
        <<32768, Decimation.DEC_32768>>,
        <<65536, Decimation.DEC_65536>> >>)

\* constants.AcqTriggerSource and constants.TriggerChannel, each member by
\* its name.
AcqTriggerSource ==
    [DISABLED |-> "DISABLED", NOW |-> "NOW",
     CHA_PE |-> "CHA_PE", CHA_NE |-> "CHA_NE",
     CHB_PE |-> "CHB_PE", CHB_NE |-> "CHB_NE",
     EXT_PE |-> "EXT_PE", EXT_NE |-> "EXT_NE",
     AWG_PE |-> "AWG_PE", AWG_NE |-> "AWG_NE"]

TriggerChannel == [CH_1 |-> "CH_1", CH_2 |-> "CH_2", CH_EXT |-> "CH_EXT"]

TRIGGER_MAP ==
    TwoWayDict(<<
        <<<<"ch1", TRUE>>, AcqTriggerSource.CHA_PE>>,
        <<<<"ch1", FALSE>>, AcqTriggerSource.CHA_NE>>,
        <<<<"ch2", TRUE>>, AcqTriggerSource.CHB_PE>>,
        <<<<"ch2", FALSE>>, AcqTriggerSource.CHB_PE>>,
        <<<<"ext", TRUE>>, AcqTriggerSource.EXT_PE>>,
        <<<<"ext", FALSE>>, AcqTriggerSource.EXT_NE>>,
        <<<<"int", TRUE>>, AcqTriggerSource.AWG_PE>>,
        <<<<"int", FALSE>>, AcqTriggerSource.AWG_NE>> >>)

\* The table of osci.py.
_TRIGGER_MAP ==
    TwoWayDict(<<
        <<<<"ch1", TRUE>>, AcqTriggerSource.CHA_PE>>,
        <<<<"ch1", FALSE>>, AcqTriggerSource.CHA_NE>>,
        <<<<"ch2", TRUE>>, AcqTriggerSource.CHB_PE>>,
        <<<<"ch2", FALSE>>, AcqTriggerSource.CHB_PE>>,
        <<<<"ext", TRUE>>, AcqTriggerSource.EXT_PE>>,
        <<<<"ext", FALSE>>, AcqTriggerSource.EXT_NE>>,
        <<<<"int", TRUE>>, AcqTriggerSource.AWG_PE>>,
        <<<<"int", FALSE>>, AcqTriggerSource.AWG_NE>> >>)

\* The trigger level registers of the hardware at power on.
NoLevels == [c \in {"CH_1", "CH_2", "CH_EXT"} |-> 0]

TRIGGER_CH_MAP ==
    TwoWayDict(<<
        <<"ch1", TriggerChannel.CH_1>>,
        <<"ch2", TriggerChannel.CH_2>>,
        <<"ext", TriggerChannel.CH_EXT>>,
        <<"int", TriggerChannel.CH_1>> >>)

VARIABLES
    results,      \* Data objects created so far, in creation order
    last_data,    \* RPAnalog._last_data: index into results, 0 for None
    ch1_enabled,  \* RPAnalog.channel1.enabled
    ch2_enabled,  \* RPAnalog.channel2.enabled
    samples,      \* RPAnalog._samples
    hw,           \* acquisition hardware behind the driver
    pc,           \* position of the single thread of control
    cur,          \* the Data and vector of the blocked vector access
    lastTrig,     \* last trigger state read by the running wait_until_done
    lastFill,     \* last buffer fill state read by the running wait_until_done
    op,           \* the last operation issued by the caller and its outcome
    faulted,      \* a driver call has failed with RPPError
    osc,          \* the Oscilloscope: its sample count, the decimation it set
    ctl           \* RPAnalog: _decimation, _trigger_delay, _trigger_src,
                  \* _trigger_ch, _trigger_level

vars == <<results, last_data, ch1_enabled, ch2_enabled, samples, hw, pc, cur,
          lastTrig, lastFill, op, faulted, osc, ctl>>

\* ------------------------------------------------------------ driver calls
Call(fn, ch, arg) == [fn |-> fn, ch |-> ch, arg |-> arg]

\* constants.StatusCode, each member by its name; the codes a failing
\* native call is made to return.
StatusCode ==
    [OK |-> "OK", EOOR |-> "EOOR", BTS |-> "BTS", EIPV |-> "EIPV",
     EUF |-> "EUF"]

FailureCodes == {StatusCode.EOOR, StatusCode.BTS}

\* RPPError(function, arguments, status_code_value).
RPPError(function, arguments, status_code_value) ==
    [function |-> function, arguments |-> arguments,
     status_code_value |-> status_code_value]

\* No exception.
NoError == RPPError("none", <<>>, StatusCode.OK)

\* The native function each wrapper calls and names in its RPPError.
NativeName(fn) ==
    CASE fn = "acq.get_buffer_fill_state" -> "rp_AcqGetBufferFillState"
      [] fn = "acq.get_decimation_factor" -> "rp_AcqGetDecimationFactor"
      [] fn = "acq.get_oldest_data_raw" -> "rp_AcqGetOldestDataRaw"
      [] fn = "acq.get_oldest_datav" -> "rp_AcqGetOldestDataV"
      [] fn = "acq.get_sampling_rate_hz" -> "rp_AcqGetSamplingRateHz"
      [] fn = "acq.get_trigger_delay" -> "rp_AcqGetTriggerDelay"
      [] fn = "acq.get_trigger_level" -> "rp_AcqGetTriggerLevel"
      [] fn = "acq.get_trigger_state" -> "rp_AcqGetTriggerState"
      [] fn = "acq.reset_fpga" -> "rp_AcqResetFpga"
      [] fn = "acq.set_decimation" -> "rp_AcqSetDecimation"
      [] fn = "acq.set_trigger_delay" -> "rp_AcqSetTriggerDelay"
      [] fn = "acq.set_trigger_level" -> "rp_AcqSetTriggerLevel"
      [] fn = "acq.set_trigger_src" -> "rp_AcqSetTriggerSrc"
      [] fn = "acq.start" -> "rp_AcqStart"
      [] fn = "acq.stop" -> "rp_AcqStop"
      [] fn = "acq_axi.enable" -> "rp_AcqAxiEnable"
      [] fn = "acq_axi.get_buffer_fill_state" -> "rp_AcqAxiGetBufferFillState"
      [] fn = "acq_axi.get_data_raw" -> "rp_AcqAxiGetDataRaw"
      [] fn = "acq_axi.get_datav" -> "rp_AcqAxiGetDataV"
      [] fn = "acq_axi.get_memory_region" -> "rp_AcqAxiGetMemoryRegion"
      [] fn = "acq_axi.get_write_pointer_at_trig" -> "rp_AcqAxiGetWritePointerAtTrig"
      [] fn = "acq_axi.set_buffer_samples" -> "rp_AcqAxiSetBufferSamples"
      [] fn = "acq_axi.set_decimation_factor" -> "rp_AcqAxiSetDecimationFactor"
      [] fn = "acq_axi.set_trigger_delay" -> "rp_AcqAxiSetTriggerDelay"

\* _to_debug(...) of the wrapper of call c: the arguments of the model's
\* call that are int, float, str or bool by value, the others (the sample
\* buffer, the Decimation member) by their type.  Sample counts are not
\* part of the model's calls.
DebugArguments(c) ==
    CASE c.fn = "acq.get_buffer_fill_state" -> <<>>
      [] c.fn = "acq.get_decimation_factor" -> <<>>
      [] c.fn = "acq.get_oldest_data_raw" -> <<c.ch, "ndarray">>
      [] c.fn = "acq.get_oldest_datav" -> <<c.ch, "ndarray">>
      [] c.fn = "acq.get_sampling_rate_hz" -> <<>>
      [] c.fn = "acq.get_trigger_delay" -> <<>>
      [] c.fn = "acq.get_trigger_level" -> <<c.ch>>
      [] c.fn = "acq.get_trigger_state" -> <<>>
      [] c.fn = "acq.reset_fpga" -> <<>>
      [] c.fn = "acq.set_decimation" -> <<c.arg>>
      [] c.fn = "acq.set_trigger_delay" -> <<c.arg>>
      [] c.fn = "acq.set_trigger_level" -> <<c.ch, c.arg>>
      [] c.fn = "acq.set_trigger_src" -> <<c.arg>>
      [] c.fn = "acq.start" -> <<>>
      [] c.fn = "acq.stop" -> <<>>
      [] c.fn = "acq_axi.enable" -> <<c.ch, TRUE>>
      [] c.fn = "acq_axi.get_buffer_fill_state" -> <<c.ch>>
      [] c.fn = "acq_axi.get_data_raw" -> <<c.ch, "ndarray">>
      [] c.fn = "acq_axi.get_datav" -> <<c.ch, "ndarray">>
      [] c.fn = "acq_axi.get_memory_region" -> <<>>
      [] c.fn = "acq_axi.get_write_pointer_at_trig" -> <<c.ch>>
      [] c.fn = "acq_axi.set_buffer_samples" -> <<c.ch, c.arg>>
      [] c.fn = "acq_axi.set_decimation_factor" -> <<"Decimation">>
      [] c.fn = "acq_axi.set_trigger_delay" -> <<c.ch, c.arg>>

\* A wrapper of rpwrap whose native call returned status: it raises
\* RPPError(native name, _to_debug(arguments), status) unless status is OK.
Wrapper(c, status) ==
    IF status # StatusCode.OK
    THEN RPPError(NativeName(c.fn), DebugArguments(c), status)
    ELSE NoError

\* No driver call failed.
NoFail == [at |-> 0, call |-> Call("none", 0, 0), status |-> StatusCode.OK]

\* Mutant: the operation issues the failed call once more before it gives
\* up.
RaiseAfterRetry(o, status) ==
    IF o.res # "device_error" THEN o
    ELSE LET at == Len(o.calls)
         IN [o EXCEPT !.fail = [at |-> at, call |-> o.calls[at],
                                status |-> status],
                      !.calls = @ \o <<o.calls[at]>>,
                      !.err = Wrapper(o.calls[at], status)]

\* The outcome o of an operation whose last driver call returned status:
\* the wrapper's exception leaves the operation as it is, there is no
\* try/except in analog.py.  fail records what the driver did, err what the
\* caller gets.
Raise(o, status) ==
    IF o.res # "device_error" THEN o
    ELSE LET at == Len(o.calls)
         IN [o EXCEPT !.fail = [at |-> at, call |-> o.calls[at],
                                status |-> status],
                      !.err = Wrapper(o.calls[at], status)]

HwReset(h) ==
    [h EXCEPT !.trig = "TRIGGERED", !.fill = FALSE,
              !.axiFill = [c \in {1, 2} |-> FALSE],
              !.axiEn = [c \in {1, 2} |-> FALSE],
              !.started = FALSE]

HwEffect(h, c) ==
    CASE c.fn = "acq.reset_fpga" -> HwReset(h)
      [] c.fn = "acq.start" -> [h EXCEPT !.started = TRUE]
      [] c.fn = "acq.stop" -> [h EXCEPT !.started = FALSE]
      [] c.fn = "acq.set_trigger_src" -> [h EXCEPT !.trig = "WAITING"]
      [] c.fn = "acq.set_decimation" -> [h EXCEPT !.dec = c.arg]
      [] c.fn = "acq_axi.set_decimation_factor" -> [h EXCEPT !.dec = c.arg]
      [] c.fn = "acq.set_trigger_level" -> [h EXCEPT !.level[c.ch] = c.arg]
      [] c.fn = "acq_axi.enable" -> [h EXCEPT !.axiEn[c.ch] = TRUE]
      [] OTHER -> h

RECURSIVE ApplyCalls(_, _)
ApplyCalls(h, cs) ==
    IF cs = <<>> THEN h ELSE ApplyCalls(HwEffect(h, Head(cs)), Tail(cs))

\* ------------------------------------------------------------------ readers
AnyEnabled(d) == d.ch1_enabled \/ d.ch2_enabled

\* The driver calls of the reader's getter of vector v.  The AXI getters read
\* a write pointer first: the arg of the read that follows is the channel
\* whose write pointer it is given as pos.
GetterCalls(reader, v) ==
    IF reader = "acq"
    THEN CASE v = "ch1_raw" -> <<Call("acq.get_oldest_data_raw", 1, 0)>>
           [] v = "ch2_raw" -> <<Call("acq.get_oldest_data_raw", 2, 0)>>
           [] v = "ch1" -> <<Call("acq.get_oldest_datav", 1, 0)>>
           [] v = "ch2" -> <<Call("acq.get_oldest_datav", 2, 0)>>
           [] OTHER -> <<>>
    ELSE CASE v = "ch1_raw" -> <<Call("acq_axi.get_write_pointer_at_trig", 1, 0),
                                 Call("acq_axi.get_data_raw", 1, 1)>>
           [] v = "ch2_raw" -> <<Call("acq_axi.get_write_pointer_at_trig", 1, 0),
                                 Call("acq_axi.get_data_raw", 2, 1)>>
           [] v = "ch1" -> <<Call("acq_axi.get_write_pointer_at_trig", 1, 0),
                             Call("acq_axi.get_datav", 1, 1)>>
           [] v = "ch2" -> <<Call("acq_axi.get_write_pointer_at_trig", 1, 0),
                             Call("acq_axi.get_datav", 2, 1)>>
           [] OTHER -> <<>>

\* Mutant: the zero point is the whole ring buffer instead of its half.
GetTimeRawFullBuffer(d) ==
    [i \in 0 .. d.size - 1 |-> i + d.trigger_delay - ADC_BUFFER_SIZE]

\* get_time_raw: np.arange(size) + trigger_delay - ADC_BUFFER_SIZE // 2, as
\* the function from the index to the entry.
GetTimeRaw(d) ==
    [i \in 0 .. d.size - 1 |-> i + d.trigger_delay - ADC_BUFFER_SIZE \div 2]

\* get_time: get_time_raw() / sampling_rate, each entry as the fraction
\* num / den.
GetTime(d) ==
    [i \in 0 .. d.size - 1 |->
       [num |-> GetTimeRaw(d)[i], den |-> d.sampling_rate]]

\* wait_until_done, one poll at a time: the loop conditions.
TrigDone(h) == h.trig # "WAITING"

\* Mutant: the second AXI loop polls channel 1.
FillPolledCh1(stage, h) ==
    CASE stage = "wait_fill" -> h.fill
      [] stage = "wait_fill1" -> h.axiFill[1]
      [] stage = "wait_fill2" -> h.axiFill[1]

FillPolled(stage, h) ==
    CASE stage = "wait_fill" -> h.fill
      [] stage = "wait_fill1" -> h.axiFill[1]
      [] stage = "wait_fill2" -> h.axiFill[2]

\* Mutant: the fill loops are skipped.
AfterTrigNoFill(d) == "finalize"

\* The polling loops wait_until_done still has to run after stage.
AfterTrig(d) ==
    IF d.reader = "acq"
    THEN IF AnyEnabled(d) THEN "wait_fill" ELSE "finalize"
    ELSE IF d.ch1_enabled THEN "wait_fill1"
         ELSE IF d.ch2_enabled THEN "wait_fill2" ELSE "finalize"

AfterFill(d, stage) ==
    IF stage = "wait_fill1" /\ d.ch2_enabled THEN "wait_fill2" ELSE "finalize"

\* wait_until_done returns without a single sleep when entered at stage.
RECURSIVE WaitNoSleep(_, _, _)
WaitNoSleep(d, stage, h) ==
    IF stage = "finalize" THEN TRUE
    ELSE IF stage = "wait_trig"
    THEN TrigDone(h) /\ WaitNoSleep(d, AfterTrig(d), h)
    ELSE FillPolled(stage, h) /\ WaitNoSleep(d, AfterFill(d, stage), h)

\* is_data_ready: the value returned and the status reads it makes.
IsDataReadyAcq(d, h) ==
    IF h.trig = "WAITING" THEN FALSE
    ELSE IF AnyEnabled(d) /\ ~h.fill THEN FALSE
    ELSE TRUE

IsDataReadyAxi(d, h) ==
    IF h.trig = "WAITING" THEN FALSE
    ELSE IF d.ch1_enabled /\ ~h.axiFill[1] THEN FALSE
    ELSE IF d.ch2_enabled /\ ~h.axiFill[1] THEN FALSE
    ELSE TRUE

IsDataReady(d, h) ==
    IF d.reader = "acq" THEN IsDataReadyAcq(d, h) ELSE IsDataReadyAxi(d, h)

ReadyCalls(d, h) ==
    <<Call("acq.get_trigger_state", 0, 0)>> \o
    IF h.trig = "WAITING" THEN <<>>
    ELSE IF d.reader = "acq"
         THEN IF AnyEnabled(d)
              THEN <<Call("acq.get_buffer_fill_state", 0, 0)>> ELSE <<>>
         ELSE (IF d.ch1_enabled
               THEN <<Call("acq_axi.get_buffer_fill_state", 1, 0)>> ELSE <<>>)
              \o
              (IF d.ch2_enabled /\ (d.ch1_enabled => h.axiFill[1])
               THEN <<Call("acq_axi.get_buffer_fill_state", 1, 0)>> ELSE <<>>)

\* Mutant: stop is issued whether or not a channel is enabled.
StopCallsAlways(d) == <<Call("acq.stop", 0, 0)>>

StopCalls(d) ==
    IF AnyEnabled(d) THEN <<Call("acq.stop", 0, 0)>> ELSE <<>>

\* ----------------------------------------------------------- Data (Result)
NoRuns == [v \in Vectors |-> 0]

FinalizeOrder == <<"time", "ch1", "ch2", "time_raw", "ch1_raw", "ch2_raw">>

\* Data.check() for a vector access that missed the cache.
CheckOutcome(d) ==
    CASE d.state = "completed" -> "return"
      [] d.state = "running" -> "wait"
      [] d.state = "canceled" -> "raise_canceled"

\* One cached_property read of vector v on a completed Data: a cache hit
\* returns the stored value; a miss runs check() (which returns at once) and
\* the reader's getter, then stores the value.  st.calls holds the driver
\* calls the operation has issued so far; the call at position f fails.
Property(d, v, st, f) ==
    IF ~st.ok \/ v \in st.cache THEN st
    ELSE LET gc == GetterCalls(d.reader, v)
             n == Len(st.calls)
         IN IF f > n /\ f <= n + Len(gc)
            THEN [st EXCEPT !.calls = @ \o SubSeq(gc, 1, f - n), !.ok = FALSE]
            ELSE [st EXCEPT !.cache = @ \cup {v},
                            !.runs[v] = @ + 1,
                            !.calls = @ \o gc]

RECURSIVE Materialize(_, _, _, _)
Materialize(d, vs, st, f) ==
    IF vs = <<>> THEN st
    ELSE Materialize(d, Tail(vs), Property(d, Head(vs), st, f), f)

\* Data._set_as_completed, entered after calls0 driver calls of the same
\* operation: state first, then reader.stop, then the six vectors.
SetAsCompleted(d, h, calls0, f) ==
    LET d1 == [d EXCEPT !.state = "completed"]
        sc == StopCalls(d)
        n0 == Len(calls0)
    IN IF f > n0 /\ f <= n0 + Len(sc)
       THEN [d |-> d1, hw |-> h, ok |-> FALSE, calls |-> calls0 \o sc,
             runs |-> NoRuns]
       ELSE LET h1 == ApplyCalls(h, sc)
                m == Materialize(d1, FinalizeOrder,
                                 [cache |-> d1.cache, runs |-> NoRuns,
                                  calls |-> calls0 \o sc, ok |-> TRUE], f)
            IN [d |-> [d1 EXCEPT !.cache = m.cache], hw |-> h1, ok |-> m.ok,
                calls |-> m.calls, runs |-> m.runs]

\* Mutant: a read that finds the data not ready puts the Data back to running.
ReadOrRaiseOutcomeRearm(d, h, f) ==
    LET rc == ReadyCalls(d, h)
    IN IF f > 0 /\ f <= Len(rc)
       THEN [d |-> d, hw |-> h, res |-> "device_error",
             calls |-> SubSeq(rc, 1, f), runs |-> NoRuns]
       ELSE IF ~IsDataReady(d, h)
       THEN [d |-> [d EXCEPT !.state = "running"], hw |-> h,
             res |-> "not_ready", calls |-> rc, runs |-> NoRuns]
       ELSE LET s == SetAsCompleted(d, h, rc, f)
            IN [d |-> s.d, hw |-> s.hw,
                res |-> IF s.ok THEN "ok" ELSE "device_error",
                calls |-> s.calls, runs |-> s.runs]

\* Data.read_or_raise: is_data_ready, then _set_as_completed.
ReadOrRaiseOutcome(d, h, f) ==
    LET rc == ReadyCalls(d, h)
    IN IF f > 0 /\ f <= Len(rc)
       THEN [d |-> d, hw |-> h, res |-> "device_error",
             calls |-> SubSeq(rc, 1, f), runs |-> NoRuns]
       ELSE IF ~IsDataReady(d, h)
       THEN [d |-> d, hw |-> h, res |-> "not_ready", calls |-> rc,
             runs |-> NoRuns]
       ELSE LET s == SetAsCompleted(d, h, rc, f)
            IN [d |-> s.d, hw |-> s.hw,
                res |-> IF s.ok THEN "ok" ELSE "device_error",
                calls |-> s.calls, runs |-> s.runs]

\* Positions at which a driver call of the operation can be made to fail
\* (0: no call fails).
FailPoints(noFailCalls) == 0 .. Len(noFailCalls)

\* The calls issued when the call at position f fails (0: none fails).
Issued(noFailCalls, f) ==
    IF f > 0 THEN SubSeq(noFailCalls, 1, f) ELSE noFailCalls

\* RPPError is a hard fault: the caller is followed up to the first one.
Idle == pc = "idle" /\ ~faulted

NoCur == [r |-> 0, v |-> "none"]

OpRec(name, r, v, tn, res, calls, runs) ==
    [name |-> name, r |-> r, v |-> v, tn |-> tn, res |-> res, calls |-> calls,
     runs |-> runs, fail |-> NoFail, err |-> NoError]

Idx == 1 .. Len(results)

ReadOrRaise(r) ==
    /\ Idle
    /\ r \in Idx
    /\ \E f \in FailPoints(ReadOrRaiseOutcome(results[r], hw, 0).calls) :
         LET o == ReadOrRaiseOutcome(results[r], hw, f)
         IN /\ results' = [results EXCEPT ![r] = o.d]
            /\ hw' = o.hw
            /\ faulted' = (f > 0)
            /\ \E status \in FailureCodes :
                 op' = Raise(OpRec("read_or_raise", r, "none", FALSE, o.res,
                                   o.calls, o.runs), status)
    /\ UNCHANGED <<ctl, osc, last_data, ch1_enabled, ch2_enabled, samples, pc, cur,
                   lastTrig, lastFill>>

Cancel(r) ==
    /\ Idle
    /\ r \in Idx
    /\ LET d == results[r]
           sc == StopCalls(d)
       IN \E f \in FailPoints(sc) :
            /\ results' = [results EXCEPT ![r].state = "canceled"]
            /\ hw' = IF f = 0 THEN ApplyCalls(hw, sc) ELSE hw
            /\ faulted' = (f > 0)
            /\ \E status \in FailureCodes :
                 op' = Raise(OpRec("cancel", r, "none", FALSE,
                                   IF f = 0 THEN "ok" ELSE "device_error", sc,
                                   NoRuns), status)
    /\ UNCHANGED <<ctl, osc, last_data, ch1_enabled, ch2_enabled, samples, pc, cur,
                   lastTrig, lastFill>>

\* A vector access that finds the value in the instance cache.  (A miss on
\* a completed Data happens only inside _set_as_completed, see Property.)
AccessCached(r, v) ==
    /\ Idle
    /\ r \in Idx
    /\ v \in results[r].cache
    /\ op' = OpRec("access", r, v, FALSE, "ok", <<>>, NoRuns)
    /\ UNCHANGED <<ctl, osc, faulted, results, last_data, ch1_enabled, ch2_enabled, samples, hw,
                   pc, cur, lastTrig, lastFill>>

\* A cache miss on a canceled Data: check() raises.
AccessCanceled(r, v) ==
    /\ Idle
    /\ r \in Idx
    /\ v \notin results[r].cache
    /\ CheckOutcome(results[r]) = "raise_canceled"
    /\ op' = OpRec("access", r, v, FALSE, "canceled", <<>>, NoRuns)
    /\ UNCHANGED <<ctl, osc, faulted, results, last_data, ch1_enabled, ch2_enabled, samples, hw,
                   pc, cur, lastTrig, lastFill>>

\* A cache miss on a running Data: check() enters reader.wait_until_done.
AccessRunning(r, v) ==
    /\ Idle
    /\ r \in Idx
    /\ v \notin results[r].cache
    /\ CheckOutcome(results[r]) = "wait"
    /\ pc' = "wait_trig"
    /\ cur' = [r |-> r, v |-> v]
    /\ lastTrig' = "none"
    /\ lastFill' = "none"
    /\ op' = OpRec("access", r, v, FALSE, "pending", <<>>, NoRuns)
    /\ UNCHANGED <<ctl, osc, faulted, results, last_data, ch1_enabled, ch2_enabled, samples, hw>>

\* The driver call wait_until_done polls with at stage.
PollCall(stage) ==
    CASE stage = "wait_trig" -> Call("acq.get_trigger_state", 0, 0)
      [] stage = "wait_fill" -> Call("acq.get_buffer_fill_state", 0, 0)
      [] stage = "wait_fill1" -> Call("acq_axi.get_buffer_fill_state", 1, 0)
      [] stage = "wait_fill2" -> Call("acq_axi.get_buffer_fill_state", 2, 0)

\* The poll raised RPPError: the exception leaves check() and the access.
WaitFail ==
    /\ pc \in {"wait_trig", "wait_fill", "wait_fill1", "wait_fill2"}
    /\ faulted' = TRUE
    /\ pc' = "idle"
    /\ cur' = NoCur
    /\ lastTrig' = "none"
    /\ lastFill' = "none"
    /\ \E status \in FailureCodes :
         op' = Raise([op EXCEPT !.res = "device_error",
                                !.calls = @ \o <<PollCall(pc)>>], status)
    /\ UNCHANGED <<ctl, osc, results, last_data, ch1_enabled, ch2_enabled, samples, hw>>

\* while acq.get_trigger_state() == WAITING: sleep
WaitTrig ==
    /\ pc = "wait_trig"
    /\ lastTrig' = hw.trig
    /\ pc' = IF TrigDone(hw) THEN AfterTrig(results[cur.r]) ELSE "wait_trig"
    /\ UNCHANGED <<ctl, osc, faulted, results, last_data, ch1_enabled, ch2_enabled, samples, hw,
                   cur, lastFill, op>>

\* while not get_buffer_fill_state(...): sleep
WaitFill ==
    /\ pc \in {"wait_fill", "wait_fill1", "wait_fill2"}
    /\ lastFill' = IF FillPolled(pc, hw) THEN "true" ELSE "false"
    /\ pc' = IF FillPolled(pc, hw)
             THEN AfterFill(results[cur.r], pc) ELSE pc
    /\ UNCHANGED <<ctl, osc, faulted, results, last_data, ch1_enabled, ch2_enabled, samples, hw,
                   cur, lastTrig, op>>

\* wait_until_done returned: _set_as_completed, then the getter of the
\* vector whose access started it all runs (again) and its value is stored.
AccessFinish ==
    /\ pc = "finalize"
    /\ LET r == cur.r
           v == cur.v
           d == results[r]
           full == SetAsCompleted(d, hw, <<>>, 0).calls
                     \o GetterCalls(d.reader, v)
       IN \E f \in FailPoints(full) :
            LET s == SetAsCompleted(d, hw, <<>>, f)
                gc == GetterCalls(d.reader, v)
                n == Len(s.calls)
                outerFails == s.ok /\ f > n /\ f <= n + Len(gc)
                d2 == IF s.ok /\ ~outerFails
                      THEN [s.d EXCEPT !.cache = @ \cup {v}]
                      ELSE s.d
                runs == IF s.ok /\ ~outerFails
                        THEN [s.runs EXCEPT ![v] = @ + 1]
                        ELSE s.runs
                calls == IF ~s.ok THEN s.calls
                         ELSE IF outerFails
                         THEN s.calls \o SubSeq(gc, 1, f - n)
                         ELSE s.calls \o gc
            IN /\ results' = [results EXCEPT ![r] = d2]
               /\ hw' = s.hw
               /\ faulted' = (f > 0)
               /\ \E status \in FailureCodes :
                    op' = Raise([op EXCEPT
                                   !.res = IF s.ok /\ ~outerFails THEN "ok"
                                           ELSE "device_error",
                                   !.calls = calls,
                                   !.runs = runs], status)
    /\ pc' = "idle"
    /\ cur' = NoCur
    /\ lastTrig' = "none"
    /\ lastFill' = "none"
    /\ UNCHANGED <<ctl, osc, last_data, ch1_enabled, ch2_enabled, samples>>

\* ---------------------------------------------------------------- RPAnalog
EnabledCount == (IF ch1_enabled THEN 1 ELSE 0) + (IF ch2_enabled THEN 1 ELSE 0)

\* Mutant: the configured trigger is written whatever trigger_now is.
TriggerCallsIgnoringNow(tn) ==
    <<Call("acq.set_trigger_level", ctl.trigger_ch, ctl.trigger_level),
      Call("acq.set_trigger_delay", 0, ctl.trigger_delay),
      Call("acq.set_trigger_src", 0, ctl.trigger_src)>>

\* The trigger writes of the arming code: trigger_now or the configured one.
TriggerCalls(tn) ==
    IF tn THEN <<Call("acq.set_trigger_src", 0, AcqTriggerSource.NOW)>>
    ELSE <<Call("acq.set_trigger_level", ctl.trigger_ch, ctl.trigger_level),
           Call("acq.set_trigger_delay", 0, ctl.trigger_delay),
           Call("acq.set_trigger_src", 0, ctl.trigger_src)>>

\* dict(self.get_metadata()) and the reader's sampling rate.
MetadataCalls ==
    <<Call("acq.get_trigger_delay", 0, 0),
      Call("acq.get_sampling_rate_hz", 0, 0),
      Call("acq.get_decimation_factor", 0, 0),
      Call("acq.get_trigger_level",
           TRIGGER_CH_MAP.d[TRIGGER_MAP.inv[ctl.trigger_src][1]], 0),
      Call("acq.get_sampling_rate_hz", 0, 0)>>

AcquireAcqCalls(tn) ==
    <<Call("acq.reset_fpga", 0, 0), Call("acq.start", 0, 0),
      Call("acq.set_decimation", 0, ctl.decimation)>>
    \o TriggerCalls(tn) \o MetadataCalls

\* Mutant: the memory check is missing.
AcquireAxiOutcomeNoMemoryCheck ==
    IF EnabledCount = 0 THEN "no_channel" ELSE "ok"

\* Where _acquire_axi stops when no driver call fails.
AcquireAxiOutcome ==
    IF EnabledCount = 0 THEN "no_channel"
    ELSE IF 2 * samples * EnabledCount > hw.memSize THEN "no_memory"
    ELSE "ok"

MemStart1 == IF ~ch1_enabled /\ ch2_enabled THEN 0 ELSE hw.memStart

\* Mutant: with both channels enabled the second buffer also starts at
\* mem_start.
MemStart2NoOffset ==
    IF ch1_enabled /\ ~ch2_enabled THEN 0 ELSE hw.memStart

MemStart2 ==
    IF ch1_enabled /\ ~ch2_enabled THEN 0
    ELSE IF ~ch1_enabled /\ ch2_enabled THEN hw.memStart
    ELSE hw.memStart + hw.memSize \div 2

AcquireAxiCalls(tn) ==
    <<Call("acq.reset_fpga", 0, 0)>> \o
    IF AcquireAxiOutcome = "no_channel" THEN <<>>
    ELSE <<Call("acq_axi.get_memory_region", 0, 0)>> \o
         IF AcquireAxiOutcome = "no_memory" THEN <<>>
         ELSE <<Call("acq_axi.set_decimation_factor", 0, ctl.decimation)>>
              \o (IF ch1_enabled
                  THEN <<Call("acq_axi.set_trigger_delay", 1, ctl.trigger_delay),
                         Call("acq_axi.set_buffer_samples", 1, MemStart1),
                         Call("acq_axi.enable", 1, 1)>>
                  ELSE <<>>)
              \o (IF ch2_enabled
                  THEN <<Call("acq_axi.set_trigger_delay", 2, ctl.trigger_delay),
                         Call("acq_axi.set_buffer_samples", 2, MemStart2),
                         Call("acq_axi.enable", 2, 1)>>
                  ELSE <<>>)
              \o TriggerCalls(tn)
              \o <<Call("acq.start", 0, 0)>>
              \o MetadataCalls

\* Mutant: a full ring buffer already goes to the AXI path.
UseAxiAtCapacity == samples >= ADC_BUFFER_SIZE

UseAxi == samples > ADC_BUFFER_SIZE

\* int(x) of Python for the rational x = a / b, b > 0: truncation to zero.
TruncDiv(a, b) == IF a >= 0 THEN a \div b ELSE -((-a) \div b)

\* The delay of the timebase in half traces: configure_timebase(n, 1, 0.5,
\* "trace"), the call of __init__.
DelayHalves == 1

\* RPAnalog._trigger_delay as configure_timebase leaves it for n samples:
\* int(delay * n + ADC_BUFFER_SIZE * 1 / 2 - n).
TriggerDelay(n) == TruncDiv(DelayHalves * n + ADC_BUFFER_SIZE - 2 * n, 2)

\* acq.get_sampling_rate_hz() of hardware set to decimation dec: the
\* fraction num / den.
SamplingRateHz(dec) == [num |-> MAXIMUM_SAMPLING_RATE, den |-> dec]

\* Data(..., reader): the reader (frozen) keeps the sample count, the sampling
\* rate read from the hardware (which the arming code has set to the
\* configured decimation) and the trigger delay.
\* Mutant: the Data returned by acquire() is born completed.
NewDataCompleted(reader) ==
    [state |-> "completed", ch1_enabled |-> ch1_enabled,
     ch2_enabled |-> ch2_enabled, reader |-> reader,
     cache |-> {}, size |-> samples,
     sampling_rate |-> SamplingRateHz(ctl.decimation),
     trigger_delay |-> ctl.trigger_delay]

NewData(reader) ==
    [state |-> "running", ch1_enabled |-> ch1_enabled,
     ch2_enabled |-> ch2_enabled, reader |-> reader,
     cache |-> {}, size |-> samples,
     sampling_rate |-> SamplingRateHz(ctl.decimation),
     trigger_delay |-> ctl.trigger_delay]

\* RPAnalog after __init__ and configure_timebase(n, 1, 0.5, "trace"):
\* configure_trigger() has stored the defaults (ch1, level 0, positive edge).
CtlOf(n) ==
    [decimation |-> DECIMATION_MAP.d[1],
     trigger_delay |-> TriggerDelay(n),
     trigger_src |-> TRIGGER_MAP.d[<<"ch1", TRUE>>],
     trigger_ch |-> TRIGGER_CH_MAP.d["ch1"],
     trigger_level |-> 0]

\* Mutant: acquire() arms without looking at the previous Data.
AcquireBeginNoFinalize(tn) ==
    /\ Idle
    /\ Len(results) < MaxResults
    /\ pc' = "arming"
    /\ op' = OpRec("acquire", 0, "none", tn, "pending", <<>>, NoRuns)
    /\ UNCHANGED <<ctl, osc, results, hw, faulted, last_data, ch1_enabled, ch2_enabled,
                   samples, cur, lastTrig, lastFill>>

\* acquire(), first half: a running previous Data is read or the call raises.
AcquireBegin(tn) ==
    /\ Idle
    /\ Len(results) < MaxResults
    /\ IF last_data # 0 /\ results[last_data].state = "running"
       THEN \E f \in FailPoints(ReadOrRaiseOutcome(results[last_data], hw, 0).calls) :
              LET o == ReadOrRaiseOutcome(results[last_data], hw, f)
              IN /\ results' = [results EXCEPT ![last_data] = o.d]
                 /\ hw' = o.hw
                 /\ faulted' = (f > 0)
                 /\ pc' = IF o.res = "ok" THEN "arming" ELSE "idle"
                 /\ \E status \in FailureCodes :
                      op' = Raise(OpRec("acquire", last_data, "none", tn,
                                        IF o.res = "ok" THEN "pending" ELSE o.res,
                                        o.calls, o.runs), status)
       ELSE /\ pc' = "arming"
            /\ op' = OpRec("acquire", 0, "none", tn, "pending", <<>>, NoRuns)
            /\ UNCHANGED <<results, hw, faulted>>
    /\ UNCHANGED <<ctl, osc, last_data, ch1_enabled, ch2_enabled, samples, cur,
                   lastTrig, lastFill>>

\* acquire(), second half: _acquire_axi or _acquire_acq arms the hardware,
\* the new Data is created and stored as _last_data.
AcquireArm ==
    /\ pc = "arming"
    /\ pc' = "idle"
    /\ LET cs == IF UseAxi THEN AcquireAxiCalls(op.tn) ELSE AcquireAcqCalls(op.tn)
           out == IF UseAxi THEN AcquireAxiOutcome ELSE "ok"
           new == Len(results) + 1
       IN \E f \in FailPoints(cs) :
            /\ faulted' = (f > 0)
            /\ IF f > 0
               THEN /\ hw' = ApplyCalls(hw, SubSeq(cs, 1, f - 1))
                    /\ \E status \in FailureCodes :
                         op' = Raise([op EXCEPT !.res = "device_error",
                                                !.calls = @ \o SubSeq(cs, 1, f),
                                                !.runs = NoRuns], status)
                    /\ UNCHANGED <<results, last_data>>
               ELSE IF out # "ok"
               THEN /\ hw' = ApplyCalls(hw, cs)
                    /\ op' = [op EXCEPT !.res = out, !.calls = @ \o cs,
                                        !.runs = NoRuns]
                    /\ UNCHANGED <<results, last_data>>
               ELSE /\ hw' = ApplyCalls(hw, cs)
                    /\ results' = Append(results,
                                         NewData(IF UseAxi THEN "axi" ELSE "acq"))
                    /\ last_data' = new
                    /\ op' = [op EXCEPT !.res = "ok", !.r = new,
                                        !.calls = @ \o cs, !.runs = NoRuns]
    /\ UNCHANGED <<ctl, osc, ch1_enabled, ch2_enabled, samples, cur, lastTrig, lastFill>>

\* configure_timebase(n, 1, 0.5, "trace"): the sample count of the next
\* acquisitions.
ConfigureTimebaseBody(n) ==
    /\ Idle
    /\ samples' = n
    /\ ctl' = [ctl EXCEPT !.decimation = DECIMATION_MAP.d[1],
                          !.trigger_delay = TriggerDelay(n)]
    /\ op' = OpRec("configure_timebase", 0, "none", FALSE, "ok", <<>>, NoRuns)
    /\ UNCHANGED <<osc, faulted, results, last_data, ch1_enabled, ch2_enabled, hw, pc, cur,
                   lastTrig, lastFill>>

\* The caller configures the timebase before its first acquisition.
ConfigureTimebase(n) ==
    /\ results = <<>>
    /\ ConfigureTimebaseBody(n)

\* controller.channel1.enabled = b / controller.channel2.enabled = b
SetEnabled(c, b) ==
    /\ Idle
    /\ results = <<>>
    /\ ch1_enabled' = IF c = 1 THEN b ELSE ch1_enabled
    /\ ch2_enabled' = IF c = 2 THEN b ELSE ch2_enabled
    /\ op' = OpRec("set_enabled", 0, "none", FALSE, "ok", <<>>, NoRuns)
    /\ UNCHANGED <<ctl, osc, faulted, results, last_data, samples, hw, pc, cur, lastTrig,
                   lastFill>>

\* ---------------------------------------------------------------- hardware
\* The armed trigger fires.
HwTrigger ==
    /\ hw.started
    /\ hw.trig = "WAITING"
    /\ hw' = [hw EXCEPT !.trig = "TRIGGERED"]
    /\ UNCHANGED <<ctl, osc, faulted, results, last_data, ch1_enabled, ch2_enabled, samples, pc,
                   cur, lastTrig, lastFill, op>>

\* The on-chip ring buffer has been filled.
HwFill ==
    /\ hw.started
    /\ ~hw.fill
    /\ hw' = [hw EXCEPT !.fill = TRUE]
    /\ UNCHANGED <<ctl, osc, faulted, results, last_data, ch1_enabled, ch2_enabled, samples, pc,
                   cur, lastTrig, lastFill, op>>

\* The AXI buffer of an enabled channel has been filled.
HwAxiFill(c) ==
    /\ hw.started
    /\ hw.axiEn[c]
    /\ ~hw.axiFill[c]
    /\ hw' = [hw EXCEPT !.axiFill[c] = TRUE]
    /\ UNCHANGED <<ctl, osc, faulted, results, last_data, ch1_enabled, ch2_enabled, samples, pc,
                   cur, lastTrig, lastFill, op>>

\* ------------------------------------------------------------ Oscilloscope
\* Durations and sampling rates are Python floats (IEEE 754 doubles), and
\* the arithmetic on them rounds as the doubles do (to nearest, ties to
\* even).  A double is [s, m, e]: the value s * m * 2^e with sign s in
\* {-1, 0, 1} and, unless it is zero, a 53-bit mantissa m, held as a
\* sequence of base-1024 digits, most significant first.

\* for exponent in range(17)
Exponents == 17

\* MAXIMUM_SAMPLING_RATE = 125e6 = RateMantissa * 2^RateExponent; the
\* sampling rate of decimation 2^x is RateMantissa * 2^(RateExponent - x),
\* exactly.
RateExponent == 6

RateMantissa == MAXIMUM_SAMPLING_RATE \div 2 ^ RateExponent

RECURSIVE Log2(_)
Log2(n) == IF n <= 1 THEN 0 ELSE 1 + Log2(n \div 2)

\* The number of bits of a natural number.
BitLength(n) == IF n = 0 THEN 0 ELSE 1 + Log2(n)

\* The digits of a natural number.
RECURSIVE IntToBn(_)
IntToBn(n) == IF n = 0 THEN <<>> ELSE Append(IntToBn(n \div 1024), n % 1024)

RECURSIVE BnToInt(_)
BnToInt(a) ==
    IF a = <<>> THEN 0
    ELSE BnToInt(SubSeq(a, 1, Len(a) - 1)) * 1024 + a[Len(a)]

RECURSIVE BnStrip(_)
BnStrip(a) == IF a # <<>> /\ Head(a) = 0 THEN BnStrip(Tail(a)) ELSE a

BnBits(a) == IF a = <<>> THEN 0 ELSE BitLength(Head(a)) + 10 * (Len(a) - 1)

BnOdd(a) == a # <<>> /\ a[Len(a)] % 2 = 1

\* a * k + carry for small k and carry.
RECURSIVE BnMulAdd(_, _, _)
BnMulAdd(a, k, carry) ==
    IF a = <<>> THEN IntToBn(carry)
    ELSE LET x == a[Len(a)] * k + carry
         IN Append(BnMulAdd(SubSeq(a, 1, Len(a) - 1), k, x \div 1024),
                   x % 1024)

\* Quotient q and remainder r of the digits a, after the digits already
\* divided, by a small k.
RECURSIVE BnDivLoop(_, _, _, _)
BnDivLoop(a, k, q, r) ==
    IF a = <<>> THEN [q |-> BnStrip(q), r |-> r]
    ELSE LET x == r * 1024 + Head(a)
         IN BnDivLoop(Tail(a), k, Append(q, x \div k), x % k)

BnDiv(a, k) == BnDivLoop(a, k, <<>>, 0)

Zeros(n) == [i \in 1 .. n |-> 0]

\* a * 2^s.
BnShl(a, s) == BnStrip(BnMulAdd(a \o Zeros(s \div 10), 2 ^ (s % 10), 0))

\* a \div 2^s, and whether a bit was lost (sticky: or had been lost).
BnShr(a, s, sticky) ==
    LET nd == s \div 10
    IN IF nd >= Len(a)
       THEN [q |-> <<>>, sticky |-> sticky \/ \E i \in 1 .. Len(a) : a[i] # 0]
       ELSE LET d == BnDiv(SubSeq(a, 1, Len(a) - nd), 2 ^ (s % 10))
            IN [q |-> d.q,
                sticky |-> \/ sticky
                           \/ d.r # 0
                           \/ \E i \in Len(a) - nd + 1 .. Len(a) : a[i] # 0]

\* -1, 0, 1 as a is less than, equal to, greater than b.
RECURSIVE BnCmp(_, _)
BnCmp(a, b) ==
    IF Len(a) # Len(b) THEN (IF Len(a) < Len(b) THEN -1 ELSE 1)
    ELSE IF a = <<>> THEN 0
    ELSE IF Head(a) # Head(b) THEN (IF Head(a) < Head(b) THEN -1 ELSE 1)
    ELSE BnCmp(Tail(a), Tail(b))

FloatZero == [s |-> 0, m |-> <<>>, e |-> 0]

\* The double nearest to s * (n + fraction) * 2^e0, ties to even; sticky
\* says the fraction is not zero (n then has more than 54 bits).
FloatRound(s, n, sticky, e0) ==
    LET bits == BnBits(n)
    IN IF n = <<>> THEN FloatZero
       ELSE IF bits <= 53
       THEN [s |-> s, m |-> BnShl(n, 53 - bits), e |-> e0 - (53 - bits)]
       ELSE LET drop == bits - 53
                q1 == BnShr(n, drop - 1, sticky)
                q2 == BnDiv(q1.q, 2).q
                up == BnOdd(q1.q) /\ (q1.sticky \/ BnOdd(q2))
                q3 == IF up THEN BnMulAdd(q2, 1, 1) ELSE q2
            IN IF BnBits(q3) = 54
               THEN [s |-> s, m |-> BnDiv(q3, 2).q, e |-> e0 + drop + 1]
               ELSE [s |-> s, m |-> q3, e |-> e0 + drop]

\* float(n) for an int n.
FloatOfInt(n) ==
    FloatRound(IF n < 0 THEN -1 ELSE 1, IntToBn(IF n < 0 THEN -n ELSE n),
               FALSE, 0)

\* The next double after a positive x.
FloatNext(x) == FloatRound(x.s, BnMulAdd(x.m, 1, 1), FALSE, x.e)

\* x <= y.
FloatLeq(x, y) ==
    IF x.s # y.s THEN x.s < y.s
    ELSE IF x.s = 0 THEN TRUE
    ELSE LET c == IF x.e # y.e THEN (IF x.e < y.e THEN -1 ELSE 1)
                  ELSE BnCmp(x.m, y.m)
         IN x.s * c <= 0

\* x * sampling_rate for the sampling rate of decimation.
FloatMulRate(x, decimation) ==
    FloatRound(x.s, BnMulAdd(x.m, RateMantissa, 0), FALSE,
               x.e + RateExponent - Log2(decimation))

\* n / sampling_rate for an int n >= 0 and the sampling rate of decimation.
FloatDivRate(n, decimation) ==
    LET d == BnDiv(IntToBn(n) \o Zeros(8), RateMantissa)
    IN FloatRound(1, d.q, d.r # 0, Log2(decimation) - RateExponent - 80)

\* The ints beyond 2^30 are counted as 2^30: all the code asks of them is
\* how they compare with 0 and ADC_BUFFER_SIZE.
IntCap == 2 ^ 30

\* math.ceil(x).
FloatCeil(x) ==
    IF x.s = 0 THEN 0
    ELSE IF x.e >= 0 THEN x.s * IntCap
    ELSE LET r == BnShr(x.m, -x.e, FALSE)
             floor == IF BnBits(r.q) > 30 THEN IntCap ELSE BnToInt(r.q)
         IN IF floor = IntCap THEN x.s * IntCap
            ELSE IF x.s > 0 THEN floor + (IF r.sticky THEN 1 ELSE 0)
            ELSE -floor

\* a + b + carry.
RECURSIVE BnAddCarry(_, _, _)
BnAddCarry(a, b, carry) ==
    IF a = <<>> /\ b = <<>> THEN IntToBn(carry)
    ELSE LET x == (IF a = <<>> THEN 0 ELSE a[Len(a)])
                  + (IF b = <<>> THEN 0 ELSE b[Len(b)]) + carry
         IN Append(BnAddCarry(SubSeq(a, 1, Len(a) - 1),
                              SubSeq(b, 1, Len(b) - 1), x \div 1024),
                   x % 1024)

\* a - b - borrow for a >= b + borrow, digit by digit.
RECURSIVE BnSubBorrow(_, _, _)
BnSubBorrow(a, b, borrow) ==
    IF a = <<>> THEN <<>>
    ELSE LET x == a[Len(a)] - (IF b = <<>> THEN 0 ELSE b[Len(b)]) - borrow
         IN Append(BnSubBorrow(SubSeq(a, 1, Len(a) - 1),
                               SubSeq(b, 1, Len(b) - 1),
                               IF x < 0 THEN 1 ELSE 0),
                   IF x < 0 THEN x + 1024 ELSE x)

Abs(n) == IF n < 0 THEN -n ELSE n

Sign(n) == IF n < 0 THEN -1 ELSE IF n = 0 THEN 0 ELSE 1

\* The double of the decimal literal n / 10^k.
FloatOfDecimal(n, k) ==
    LET d == BnDiv(IntToBn(Abs(n)) \o Zeros(8), 10 ^ k)
    IN FloatRound(Sign(n), d.q, d.r # 0, -80)

\* x * n for an int n.
FloatMulInt(x, n) ==
    IF x.s = 0 \/ n = 0 THEN FloatZero
    ELSE FloatRound(x.s * Sign(n), BnMulAdd(x.m, Abs(n), 0), FALSE, x.e)

\* x + n for an int n.
FloatAddInt(x, n) ==
    IF x.s = 0 THEN FloatOfInt(n)
    ELSE LET e == IF x.e < 0 THEN x.e ELSE 0
             a == BnShl(x.m, x.e - e)
             b == BnShl(IntToBn(Abs(n)), -e)
             c == BnCmp(a, b)
         IN IF Sign(n) = 0 THEN x
            ELSE IF Sign(n) = x.s
            THEN FloatRound(x.s, BnStrip(BnAddCarry(a, b, 0)), FALSE, e)
            ELSE IF c = 0 THEN FloatZero
            ELSE IF c > 0
            THEN FloatRound(x.s, BnStrip(BnSubBorrow(a, b, 0)), FALSE, e)
            ELSE FloatRound(-x.s, BnStrip(BnSubBorrow(b, a, 0)), FALSE, e)

\* int(x): truncation towards zero.
FloatTrunc(x) ==
    IF x.s = 0 THEN 0
    ELSE IF x.e >= 0 THEN x.s * IntCap
    ELSE LET r == BnShr(x.m, -x.e, FALSE)
         IN IF BnBits(r.q) > 30 THEN x.s * IntCap ELSE x.s * BnToInt(r.q)

\* The decimations of the hardware.
Decimations == {2 ^ e : e \in 0 .. Exponents - 1}

\* ADC_BUFFER_SIZE / (MAXIMUM_SAMPLING_RATE / decimation), the acquisition
\* window of each decimation as the code computes it.
Windows == [d \in Decimations |-> FloatDivRate(ADC_BUFFER_SIZE, d)]

Window(decimation) == Windows[decimation]

\* Mutant: a window equal to the requested duration is not accepted.
RECURSIVE BestDecimationLoopStrict(_, _, _)
BestDecimationLoopStrict(trace_duration, exponent, stop) ==
    IF exponent >= stop
    THEN [res |-> "no_suitable_decimation", decimation |-> 0]
    ELSE LET decimation == 2 ^ exponent
             current_trace_duration == Window(decimation)
         IN IF /\ FloatLeq(trace_duration, current_trace_duration)
               /\ trace_duration # current_trace_duration
            THEN [res |-> "ok", decimation |-> decimation]
            ELSE BestDecimationLoopStrict(trace_duration, exponent + 1, stop)

\* The loop of calculate_best_decimation from exponent on.
RECURSIVE BestDecimationLoop(_, _, _)
BestDecimationLoop(trace_duration, exponent, stop) ==
    IF exponent >= stop
    THEN [res |-> "no_suitable_decimation", decimation |-> 0]
    ELSE LET decimation == 2 ^ exponent
             current_trace_duration == Window(decimation)
         IN IF FloatLeq(trace_duration, current_trace_duration)
            THEN [res |-> "ok", decimation |-> decimation]
            ELSE BestDecimationLoop(trace_duration, exponent + 1, stop)

\* Mutant: the largest decimation is never tried.
calculate_best_decimation_short(trace_duration) ==
    BestDecimationLoop(trace_duration, 0, Exponents - 1)

calculate_best_decimation(trace_duration) ==
    BestDecimationLoop(trace_duration, 0, Exponents)

\* calculate_amount_datapoints(min_trace_duration, sampling_rate) for the
\* sampling rate of decimation.
calculate_amount_datapoints(min_trace_duration, decimation) ==
    LET amount_datapoints ==
          FloatCeil(FloatMulRate(min_trace_duration, decimation))
    IN IF 0 < amount_datapoints /\ amount_datapoints <= ADC_BUFFER_SIZE
       THEN [res |-> "ok", amount |-> amount_datapoints]
       ELSE [res |-> "assertion", amount |-> 0]

\* The Oscilloscope after __init__: set_timebase(1), one second.
OscInit ==
    LET decimation == calculate_best_decimation(FloatOfInt(1)).decimation
    IN [decimation |-> decimation,
        amount_datapoints |->
          calculate_amount_datapoints(FloatOfInt(1), decimation).amount]

OscOp(name, duration, decimation, full_buffer, res, ret) ==
    [name |-> name, duration |-> duration, decimation |-> decimation,
     full_buffer |-> full_buffer, res |-> res, ret |-> ret]

\* Oscilloscope.set_timebase(trace_duration_hint, full_buffer); the driver
\* call at position f fails (1: set_decimation, 2: get_sampling_rate_hz), and
\* the hardware reports the sampling rate of the decimation it was given.
SetTimebase(trace_duration_hint, full_buffer) ==
    /\ ~faulted
    /\ LET best == calculate_best_decimation(trace_duration_hint)
       IN IF best.res # "ok"
          THEN /\ op' = OscOp("set_timebase", trace_duration_hint, 0,
                              full_buffer, best.res, FloatZero)
               /\ UNCHANGED <<osc, faulted>>
          ELSE \E f \in 0 .. 2 :
                 LET a == IF full_buffer
                          THEN [res |-> "ok", amount |-> ADC_BUFFER_SIZE]
                          ELSE calculate_amount_datapoints(trace_duration_hint,
                                                           best.decimation)
                 IN /\ faulted' = (f > 0)
                    /\ osc' = [decimation |->
                                 IF f = 1 THEN osc.decimation
                                 ELSE best.decimation,
                               amount_datapoints |->
                                 IF f = 0 /\ a.res = "ok" THEN a.amount
                                 ELSE osc.amount_datapoints]
                    /\ op' = OscOp("set_timebase", trace_duration_hint,
                                   best.decimation, full_buffer,
                                   IF f > 0 THEN "device_error" ELSE a.res,
                                   IF f = 0 /\ a.res = "ok"
                                   THEN FloatDivRate(a.amount, best.decimation)
                                   ELSE FloatZero)
    /\ UNCHANGED <<ctl, results, last_data, ch1_enabled, ch2_enabled, samples, hw,
                   pc, cur, lastTrig, lastFill>>

\* A call of calculate_best_decimation.
BestDecimationCall(trace_duration) ==
    /\ ~faulted
    /\ LET best == calculate_best_decimation(trace_duration)
       IN op' = OscOp("calculate_best_decimation", trace_duration, 0, FALSE,
                      best.res, best.decimation)
    /\ UNCHANGED <<ctl, results, last_data, ch1_enabled, ch2_enabled, samples, hw,
                   pc, cur, lastTrig, lastFill, faulted, osc>>

\* A call of calculate_amount_datapoints.
AmountDatapointsCall(min_trace_duration, decimation) ==
    /\ ~faulted
    /\ LET a == calculate_amount_datapoints(min_trace_duration, decimation)
       IN op' = OscOp("calculate_amount_datapoints", min_trace_duration,
                      decimation, FALSE, a.res, a.amount)
    /\ UNCHANGED <<ctl, results, last_data, ch1_enabled, ch2_enabled, samples, hw,
                   pc, cur, lastTrig, lastFill, faulted, osc>>

\* The durations tried: the time of k samples at decimation d and the next
\* double after it, no time at all, a negative time, one second and a
\* hundred.
Around(ks, ds) ==
    LET grid == {FloatDivRate(k, d) : k \in ks, d \in ds}
    IN grid \cup {FloatNext(x) : x \in grid}
            \cup {FloatZero, FloatOfInt(-1), FloatOfInt(1), FloatOfInt(100)}

Durations == Around({ADC_BUFFER_SIZE}, Decimations)

RateChoices == {1, 4, 2 ^ (Exponents - 1)}

HintChoices == Around({9375, ADC_BUFFER_SIZE}, RateChoices)

OsciNext ==
    \/ \E t \in HintChoices, full \in BOOLEAN : SetTimebase(t, full)
    \/ \E t \in Durations : BestDecimationCall(t)
    \/ \E t \in HintChoices, d \in RateChoices : AmountDatapointsCall(t, d)

\* ------------------------------------------------- RPAnalog configuration
\* The record of a configuration call: its arguments, the driver calls it
\* made and what it returned.
CfgOp(name, args, res, calls, ret) ==
    [name |-> name, r |-> 0, v |-> "none", tn |-> FALSE, res |-> res,
     calls |-> calls, runs |-> NoRuns, fail |-> NoFail, err |-> NoError,
     args |-> args, ret |-> ret]

\* ------------------------------------------------ frequency_to_decimation
\* MAXIMUM_SAMPLING_RATE / decimation, exact in a double.
SamplingRate(decimation) ==
    [FloatOfInt(MAXIMUM_SAMPLING_RATE) EXCEPT !.e = @ - Log2(decimation)]

\* The loop of frequency_to_decimation over reversed(DECIMATION_VALUES),
\* entered at 2^exponent: the first decimation whose sampling rate is
\* greater than at_least_hz.
RECURSIVE FrequencyLoop(_, _)
FrequencyLoop(at_least_hz, exponent) ==
    IF exponent < 0 THEN [res |-> "value_error", decimation |-> 0]
    ELSE IF ~FloatLeq(SamplingRate(2 ^ exponent), at_least_hz)
    THEN [res |-> "ok", decimation |-> 2 ^ exponent]
    ELSE FrequencyLoop(at_least_hz, exponent - 1)

frequency_to_decimation(at_least_hz) ==
    FrequencyLoop(at_least_hz, Exponents - 1)

\* A call of frequency_to_decimation.
FrequencyToDecimationCall(at_least_hz) ==
    /\ ~faulted
    /\ LET out == frequency_to_decimation(at_least_hz)
       IN op' = CfgOp("frequency_to_decimation",
                      [at_least_hz |-> at_least_hz], out.res, <<>>,
                      out.decimation)
    /\ UNCHANGED <<ctl, results, last_data, ch1_enabled, ch2_enabled, samples,
                   hw, pc, cur, lastTrig, lastFill, faulted, osc>>

\* The frequencies tried: the sampling rate of every decimation, three and
\* five times it, the next double after each, none and a negative one.
FrequencyMultiples == {1, 3, 5}

Frequencies ==
    LET grid == {FloatMulInt(SamplingRate(d), k) :
                   d \in Decimations, k \in FrequencyMultiples}
    IN grid \cup {FloatNext(x) : x \in grid}
            \cup {FloatZero, FloatOfInt(-1)}

FreqNext == \E hz \in Frequencies : FrequencyToDecimationCall(hz)

\* delay_samples of configure_timebase: math.ceil(delay *
\* acq.get_sampling_rate_hz()), at the sampling rate the hardware h has,
\* or delay * self._samples.
DelaySamples(n, decimation, delay, delay_units, h) ==
    IF delay_units = "second"
    THEN FloatOfInt(FloatCeil(FloatMulRate(delay, h.dec)))
    ELSE FloatMulInt(delay, n)

\* Mutant: the sample count is not subtracted.
TriggerDelayOfWholeBuffer(n, delay_samples) ==
    FloatTrunc(FloatAddInt(delay_samples, ADC_BUFFER_SIZE \div 2))

\* int(delay_samples + constants.ADC_BUFFER_SIZE * 1 / 2 - self._samples)
TriggerDelayOf(n, delay_samples) ==
    FloatTrunc(FloatAddInt(FloatAddInt(delay_samples, ADC_BUFFER_SIZE \div 2),
                           -n))

\* RPAnalog.configure_timebase(n, decimation, delay, delay_units).
ConfigureTimebaseCall(n, decimation, delay, delay_units) ==
    /\ Idle
    /\ samples' = n
    /\ LET args == [samples |-> n, decimation |-> decimation,
                    delay |-> delay, delay_units |-> delay_units]
           calls == IF delay_units = "second"
                    THEN <<Call("acq.get_sampling_rate_hz", 0, 0)>> ELSE <<>>
       IN IF decimation \notin DOMAIN DECIMATION_MAP.d
          THEN /\ op' = CfgOp("configure_timebase", args, "key_error", <<>>,
                              FloatZero)
               /\ UNCHANGED <<ctl, faulted>>
          ELSE \E f \in FailPoints(calls) :
                 LET delay_samples ==
                       DelaySamples(n, decimation, delay, delay_units, hw)
                 IN /\ faulted' = (f > 0)
                    /\ ctl' = [ctl EXCEPT
                                 !.decimation = DECIMATION_MAP.d[decimation],
                                 !.trigger_delay =
                                    IF f > 0 THEN @
                                    ELSE TriggerDelayOf(n, delay_samples)]
                    /\ \E status \in FailureCodes :
                         op' = Raise(CfgOp("configure_timebase", args,
                                           IF f > 0 THEN "device_error"
                                           ELSE "ok",
                                           Issued(calls, f),
                                           IF f > 0 THEN FloatZero
                                           ELSE delay_samples), status)
    /\ UNCHANGED <<results, last_data, ch1_enabled, ch2_enabled, hw, pc, cur,
                   lastTrig, lastFill, osc>>

\* Mutant: the level is written to the hardware at once.
ConfigureTriggerCallsWriteLevel(source, level) ==
    <<Call("acq.set_trigger_level", TRIGGER_CH_MAP.d[source], level)>>

\* The driver calls of RPAnalog.configure_trigger: none.
ConfigureTriggerCalls(source, level) == <<>>

\* RPAnalog.configure_trigger(source=..., level=..., positive_edge=...).
ConfigureTrigger(source, level, positive_edge) ==
    /\ Idle
    /\ LET calls == ConfigureTriggerCalls(source, level)
       IN \E f \in FailPoints(calls) :
            /\ faulted' = (f > 0)
            /\ hw' = IF f > 0 THEN hw ELSE ApplyCalls(hw, calls)
            /\ \E status \in FailureCodes :
                 op' = Raise(CfgOp("configure_trigger",
                                   [source |-> source, level |-> level,
                                    positive_edge |-> positive_edge],
                                   IF f > 0 THEN "device_error" ELSE "ok",
                                   Issued(calls, f), 0), status)
    /\ ctl' = [ctl EXCEPT
                 !.trigger_src = TRIGGER_MAP.d[<<source, positive_edge>>],
                 !.trigger_ch = TRIGGER_CH_MAP.d[source],
                 !.trigger_level = level]
    /\ UNCHANGED <<results, last_data, ch1_enabled, ch2_enabled, samples, pc,
                   cur, lastTrig, lastFill, osc>>

\* The dict get_trigger_settings returns for the controller fields c and
\* the hardware h.
TriggerSettings(c, h) ==
    IF c.trigger_src = AcqTriggerSource.DISABLED
    THEN [source |-> "disabled", level |-> "None", positive_edge |-> "None"]
    ELSE IF c.trigger_src = AcqTriggerSource.NOW
    THEN [source |-> "now", level |-> "None", positive_edge |-> "None"]
    ELSE LET key == TRIGGER_MAP.inv[c.trigger_src]
         IN [source |-> key[1],
             level |-> h.level[TRIGGER_CH_MAP.d[key[1]]],
             positive_edge |-> key[2]]

\* The driver calls of get_trigger_settings.
TriggerSettingsCalls(c) ==
    IF c.trigger_src \in {AcqTriggerSource.DISABLED, AcqTriggerSource.NOW}
    THEN <<>>
    ELSE <<Call("acq.get_trigger_level",
                TRIGGER_CH_MAP.d[TRIGGER_MAP.inv[c.trigger_src][1]], 0)>>

\* RPAnalog.get_trigger_settings().
GetTriggerSettings ==
    /\ Idle
    /\ LET calls == TriggerSettingsCalls(ctl)
       IN \E f \in FailPoints(calls) :
            /\ faulted' = (f > 0)
            /\ \E status \in FailureCodes :
                 op' = Raise(CfgOp("get_trigger_settings", <<>>,
                                   IF f > 0 THEN "device_error" ELSE "ok",
                                   Issued(calls, f),
                                   IF f > 0 THEN 0
                                   ELSE TriggerSettings(ctl, hw)), status)
    /\ UNCHANGED <<results, last_data, ch1_enabled, ch2_enabled, samples, hw,
                   pc, cur, lastTrig, lastFill, osc, ctl>>

\* The first acquisition of the controller.
FirstAcquire(tn) ==
    /\ results = <<>>
    /\ AcquireBegin(tn)

\* The configuration calls tried: before the first acquisition and right
\* after it.
Reconfigure == results = <<>> \/ op.name = "acquire"

\* The timebases tried: an on-chip and an AXI sample count; a decimation
\* the hardware starts with, another one, and 256; half a trace, 1.15
\* traces and a microsecond.
CfgSamples == {1024, ADC_BUFFER_SIZE + 1}

CfgDecimations == {1, 8, 256}

DelayChoices ==
    {<<FloatOfDecimal(5, 1), "trace">>, <<FloatOfDecimal(115, 2), "trace">>,
     <<FloatOfDecimal(1, 6), "second">>}

TimebaseNext ==
    \/ \E n \in CfgSamples, dec \in CfgDecimations, du \in DelayChoices :
         Reconfigure /\ ConfigureTimebaseCall(n, dec, du[1], du[2])
    \/ \E c \in {1, 2}, b \in BOOLEAN : SetEnabled(c, b)
    \/ \E tn \in BOOLEAN : FirstAcquire(tn)
    \/ AcquireArm
    \/ HwTrigger
    \/ HwFill
    \/ \E c \in {1, 2} : HwAxiFill(c)

\* The triggers tried: every key of TRIGGER_MAP at two levels.
TriggerSources == {"ch1", "ch2", "ext", "int"}

TriggerLevels == {0, 1}

\* The decimations tried with them.
TrigDecimations == {1, 8}
\* The on-chip sample counts and the delays, in traces, tried for the range
\* of the trigger delay.
OnChipSamples ==
    {1, 1024, ADC_BUFFER_SIZE \div 2, ADC_BUFFER_SIZE \div 2 + 1,
     ADC_BUFFER_SIZE}

TraceDelays == {FloatZero, FloatOfDecimal(5, 1), FloatOfInt(1)}

DelayNext ==
    \/ \E n \in OnChipSamples, delay \in TraceDelays :
         Reconfigure /\ ConfigureTimebaseCall(n, 1, delay, "trace")
    \/ \E tn \in BOOLEAN : FirstAcquire(tn)
    \/ AcquireArm

TrigNext ==
    \/ \E src \in TriggerSources, lv \in TriggerLevels, pe \in BOOLEAN :
         Reconfigure /\ ConfigureTrigger(src, lv, pe)
    \/ GetTriggerSettings
    \/ \E n \in CfgSamples, dec \in TrigDecimations :
         Reconfigure /\ ConfigureTimebaseCall(n, dec, FloatOfDecimal(5, 1),
                                              "trace")
    \/ \E c \in {1, 2}, b \in BOOLEAN : SetEnabled(c, b)
    \/ \E tn \in BOOLEAN : FirstAcquire(tn)
    \/ AcquireArm
    \/ HwTrigger
    \/ HwFill
    \/ \E c \in {1, 2} : HwAxiFill(c)

\* ------------------------------------------------------------ specification
Init ==
    /\ results = <<>>
    /\ last_data = 0
    /\ ch1_enabled = FALSE
    /\ ch2_enabled = FALSE
    /\ samples = 1024
    /\ hw = [trig |-> "TRIGGERED", fill |-> FALSE,
             axiFill |-> [c \in {1, 2} |-> FALSE],
             axiEn |-> [c \in {1, 2} |-> FALSE],
             started |-> FALSE, memStart |-> MemStart, memSize |-> MemSize,
             dec |-> 1, level |-> NoLevels]
    /\ ctl = CtlOf(1024)
    /\ pc = "idle"
    /\ cur = NoCur
    /\ lastTrig = "none"
    /\ lastFill = "none"
    /\ op = OpRec("init", 0, "none", FALSE, "ok", <<>>, NoRuns)
    /\ faulted = FALSE
    /\ osc = OscInit

Next ==
    \/ \E tn \in BOOLEAN : AcquireBegin(tn)
    \/ AcquireArm
    \/ \E n \in SampleChoices : ConfigureTimebase(n)
    \/ \E c \in {1, 2}, b \in BOOLEAN : SetEnabled(c, b)
    \/ \E r \in 1 .. MaxResults : ReadOrRaise(r)
    \/ \E r \in 1 .. MaxResults : Cancel(r)
    \/ \E r \in 1 .. MaxResults, v \in Vectors : AccessCached(r, v)
    \/ \E r \in 1 .. MaxResults, v \in Vectors : AccessCanceled(r, v)
    \/ \E r \in 1 .. MaxResults, v \in Vectors : AccessRunning(r, v)
    \/ WaitTrig
    \/ WaitFill
    \/ WaitFail
    \/ AccessFinish
    \/ HwTrigger
    \/ HwFill
    \/ \E c \in {1, 2} : HwAxiFill(c)

Spec == Init /\ [][Next]_vars

\* The blocking vector access on its own: the controller has been configured
\* and acquire() has just returned the running Data.
\* The hardware as the arming code of acquire() can leave it.
ArmedHw ==
    {[trig |-> "WAITING", fill |-> FALSE,
      axiFill |-> [c \in {1, 2} |-> FALSE], axiEn |-> en, started |-> TRUE,
      memStart |-> MemStart, memSize |-> MemSize, dec |-> 1,
      level |-> NoLevels] : en \in [{1, 2} -> BOOLEAN]}

AcquiredInit(sampleSet) ==
    /\ ch1_enabled \in BOOLEAN
    /\ ch2_enabled \in BOOLEAN
    /\ samples \in sampleSet
    /\ ctl = CtlOf(samples)
    /\ hw \in ArmedHw
    /\ UseAxi => AcquireAxiOutcome = "ok"
    /\ last_data = 1
    /\ results = <<NewData(IF UseAxi THEN "axi" ELSE "acq")>>
    /\ pc = "idle"
    /\ cur = NoCur
    /\ lastTrig = "none"
    /\ lastFill = "none"
    /\ faulted = FALSE
    /\ osc = OscInit
    /\ \E tn \in BOOLEAN :
         LET cs == IF UseAxi THEN AcquireAxiCalls(tn) ELSE AcquireAcqCalls(tn)
         IN /\ hw = ApplyCalls(HwReset(hw), cs)
            /\ op = OpRec("acquire", 1, "none", tn, "ok", cs, NoRuns)

WaitInit == AcquiredInit(SampleChoices)

WaitNext ==
    \/ \E v \in Vectors : AccessRunning(1, v)
    \/ WaitTrig
    \/ WaitFill
    \/ WaitFail
    \/ AccessFinish
    \/ HwTrigger
    \/ HwFill
    \/ \E c \in {1, 2} : HwAxiFill(c)

WaitSpec == WaitInit /\ [][WaitNext]_vars

\* The running code keeps running and the hardware keeps acquiring.
WaitFairSpec ==
    /\ WaitSpec
    /\ WF_vars(WaitTrig)
    /\ WF_vars(WaitFill)
    /\ WF_vars(HwTrigger)
    /\ WF_vars(HwFill)
    /\ \A c \in {1, 2} : WF_vars(HwAxiFill(c))

\* The arming code on its own, over sample counts around the capacity of the
\* ring buffer and of the reserved region the driver reports.
ArmSamples == {ADC_BUFFER_SIZE, ADC_BUFFER_SIZE + 1, 250000, 250001, 300000,
               500000, 500001}

ArmMemSizes == {MemSize, MemSize + 1}

ArmInit ==
    /\ results = <<>>
    /\ last_data = 0
    /\ ch1_enabled \in BOOLEAN
    /\ ch2_enabled \in BOOLEAN
    /\ samples \in ArmSamples
    /\ ctl = CtlOf(samples)
    /\ \E size \in ArmMemSizes :
         hw = [trig |-> "TRIGGERED", fill |-> FALSE,
               axiFill |-> [c \in {1, 2} |-> FALSE],
               axiEn |-> [c \in {1, 2} |-> FALSE],
               started |-> FALSE, memStart |-> MemStart, memSize |-> size,
               dec |-> 1, level |-> NoLevels]
    /\ pc = "idle"
    /\ cur = NoCur
    /\ lastTrig = "none"
    /\ lastFill = "none"
    /\ op = OpRec("init", 0, "none", FALSE, "ok", <<>>, NoRuns)
    /\ faulted = FALSE
    /\ osc = OscInit

ArmNext ==
    \/ \E tn \in BOOLEAN : AcquireBegin(tn)
    \/ AcquireArm
    \/ HwTrigger
    \/ HwFill
    \/ \E c \in {1, 2} : HwAxiFill(c)

ArmSpec == ArmInit /\ [][ArmNext]_vars

\* The time axis of a Data: acquire() has returned it, the caller reads its
\* vectors and configures the next timebase.
MaxSamples == 3

TimeSamples == 1 .. MaxSamples \cup {ADC_BUFFER_SIZE + 1}

TimeInit == AcquiredInit(TimeSamples)

TimeNext ==
    \/ \E n \in TimeSamples : ConfigureTimebaseBody(n)
    \/ \E v \in Vectors : AccessRunning(1, v)
    \/ \E v \in Vectors : AccessCached(1, v)
    \/ ReadOrRaise(1)
    \/ WaitTrig
    \/ WaitFill
    \/ WaitFail
    \/ AccessFinish
    \/ HwTrigger
    \/ HwFill
    \/ \E c \in {1, 2} : HwAxiFill(c)

TimeSpec == TimeInit /\ [][TimeNext]_vars

OsciSpec == Init /\ [][OsciNext]_vars

TimebaseSpec == Init /\ [][TimebaseNext]_vars

FreqSpec == Init /\ [][FreqNext]_vars

DelaySpec == Init /\ [][DelayNext]_vars

TrigSpec == Init /\ [][TrigNext]_vars

TypeOK ==
    /\ last_data \in 0 .. Len(results)
    /\ Len(results) <= MaxResults
    /\ pc \in {"idle", "arming", "wait_trig", "wait_fill", "wait_fill1",
               "wait_fill2", "finalize"}
    /\ \A r \in Idx : results[r].state \in {"running", "completed", "canceled"}

\* ------------------------------------------------------------------ claims
RunningSet == {r \in Idx : results[r].state = "running"}

ArmingFns == {"acq.reset_fpga", "acq.start", "acq.set_trigger_src",
              "acq.set_trigger_level", "acq.set_trigger_delay"}

SampleFns == {"acq.get_oldest_data_raw", "acq.get_oldest_datav",
              "acq_axi.get_data_raw", "acq_axi.get_datav"}

CallIdx(fns) == {i \in 1 .. Len(op.calls) : op.calls[i].fn \in fns}

WaitStages == {"wait_trig", "wait_fill", "wait_fill1", "wait_fill2"}

\* The readiness the claims speak of: trigger state not WAITING and the
\* buffer of every enabled channel filled.
HwReady(d, h) ==
    /\ h.trig # "WAITING"
    /\ IF d.reader = "acq" THEN AnyEnabled(d) => h.fill
       ELSE /\ d.ch1_enabled => h.axiFill[1]
            /\ d.ch2_enabled => h.axiFill[2]

\* C1: at most one Data of the controller is running; when acquire() reaches
\* the arming code no Data is running, and an acquire() that raised while the
\* previous Data stayed running has issued no reset_fpga/start/trigger write.
C1_AtMostOneRunning ==
    /\ Cardinality(RunningSet) <= 1
    /\ pc = "arming" => RunningSet = {}
    /\ (/\ op.name = "acquire"
        /\ op.res \notin {"ok", "pending"}
        /\ last_data # 0
        /\ results[last_data].state = "running")
       => CallIdx(ArmingFns) = {}

\* acquire() found the previous Data running, finalized it and armed again.
C1_Witness ==
    /\ op.name = "acquire"
    /\ op.res = "ok"
    /\ Len(results) = 2
    /\ results[1].state = "completed"
    /\ results[2].state = "running"
    /\ op.calls[1].fn = "acq.get_trigger_state"

\* C2 (as claimed): an access to a vector of a canceled Data raises the
\* measurement-canceled error and returns no data.
C2_CanceledAccessRaises ==
    (/\ op.name = "access"
     /\ pc = "idle"
     /\ results[op.r].state = "canceled")
    => op.res = "canceled"

\* C3 (as claimed): a canceled Data stays canceled under every operation.
C3_CancelIsTerminal ==
    [][\A r \in Idx : results[r].state = "canceled"
                      => results'[r].state = "canceled"]_vars

\* C4: a Data that has left running never returns to running.
C4_NeverBackToRunning ==
    [][\A r \in Idx : results[r].state # "running"
                      => results'[r].state # "running"]_vars

\* A canceled Data was read again while a second Data exists.
C4_Witness ==
    /\ Len(results) = 2
    /\ op.name = "read_or_raise"
    /\ op.r = 1
    /\ results[1].state # "running"
    /\ results[2].state = "canceled"

\* C5 (as claimed): read_or_raise() on a running Data raises data-not-ready
\* and changes nothing while the hardware is not ready, and succeeds once the
\* hardware is ready.
C5_NotReadyLeavesUnchanged ==
    [][\A r \in Idx :
         (/\ results[r].state = "running"
          /\ op'.name = "read_or_raise"
          /\ op'.r = r
          /\ op' # op
          /\ ~faulted')
         => IF HwReady(results[r], hw)
            THEN op'.res = "ok"
            ELSE /\ op'.res = "not_ready"
                 /\ results'[r] = results[r]
                 /\ \A i \in 1 .. Len(op'.calls) : op'.calls[i].fn # "acq.stop"]_vars

\* The operations that ran _set_as_completed to its end.
Finalized ==
    \/ op.name = "read_or_raise" /\ op.res = "ok"
    \/ op.name = "access" /\ op.res = "ok" /\ op.runs # NoRuns
    \/ op.name = "acquire" /\ pc = "arming" /\ op.calls # <<>>

\* C6: a finalization that succeeded called acq.stop() exactly if a channel
\* of the Data is enabled, called it before every sample read, and left all
\* six vectors in the cache; an access served from the cache made no driver
\* call.
C6_FinalizationStopsThenReads ==
    /\ Finalized =>
         /\ (CallIdx({"acq.stop"}) # {}) = AnyEnabled(results[op.r])
         /\ \A i \in CallIdx({"acq.stop"}), j \in CallIdx(SampleFns) : i < j
         /\ results[op.r].cache = Vectors
    /\ (op.name = "access" /\ op.res = "ok" /\ op.runs = NoRuns)
       => op.calls = <<>>

\* A blocking vector access finalized a Data with an enabled channel.
C6_Witness ==
    /\ Finalized
    /\ op.name = "access"
    /\ AnyEnabled(results[op.r])
    /\ CallIdx({"acq.stop"}) = {1}
    /\ CallIdx(SampleFns) # {}

\* Getter runs of vector v of Data r made by the step.
StepRuns(r, v) ==
    IF op'.r = r /\ (results' # results \/ pc' # pc) THEN op'.runs[v] ELSE 0

\* C7 (as claimed): the getter of a vector runs at most once per Data: no
\* step runs it twice and no step runs it for a vector already cached.
C7_ComputedAtMostOnce ==
    [][\A r \in Idx, v \in Vectors :
         StepRuns(r, v) <= IF v \in results[r].cache THEN 0 ELSE 1]_vars

\* C8: when wait_until_done has returned the last trigger state read is not
\* WAITING and, with a channel enabled, the last fill state read is true;
\* with no channel enabled the fill state is never polled.
C8_WaitReturnsOnlyWhenDone ==
    /\ pc = "finalize" =>
         /\ lastTrig = "TRIGGERED"
         /\ AnyEnabled(results[cur.r]) => lastFill = "true"
         /\ ~AnyEnabled(results[cur.r]) => lastFill = "none"
    /\ pc \in {"wait_fill", "wait_fill1", "wait_fill2"} =>
         /\ lastTrig = "TRIGGERED"
         /\ AnyEnabled(results[cur.r])

\* The AXI wait of a Data with both channels enabled has returned.
C8_Witness ==
    /\ pc = "finalize"
    /\ results[cur.r].reader = "axi"
    /\ results[cur.r].ch1_enabled
    /\ results[cur.r].ch2_enabled

\* C9: with running hardware every wait_until_done eventually ends; while
\* the hardware reports WAITING the call does not return.
C9_WaitEndsIffHardwareDoes ==
    /\ (pc \in WaitStages /\ hw.started) ~> (pc \notin WaitStages)
    /\ [][(pc = "wait_trig" /\ hw.trig = "WAITING")
          => (pc' = "wait_trig" \/ faulted')]_vars

\* wait_until_done has polled a WAITING trigger and sleeps.
C9_Witness ==
    /\ pc = "wait_trig"
    /\ lastTrig = "WAITING"
    /\ hw.started

\* C10 (as claimed): is_data_ready() is true exactly when wait_until_done()
\* would return without sleeping.
C10_ReadyIffWaitReturnsAtOnce ==
    \A r \in Idx :
        IsDataReady(results[r], hw) = WaitNoSleep(results[r], "wait_trig", hw)

\* C11: a Data has the AXI reader exactly when the configured sample count
\* is greater than 16384, and a successful acquire() made AXI driver calls
\* exactly then.
AxiFns == {"acq_axi.get_memory_region", "acq_axi.set_decimation_factor",
           "acq_axi.set_trigger_delay", "acq_axi.set_buffer_samples",
           "acq_axi.enable"}

C11_AxiIffAboveCapacity ==
    /\ \A r \in Idx :
         results[r].reader = IF samples > 16384 THEN "axi" ELSE "acq"
    /\ (op.name = "acquire" /\ op.res = "ok")
       => ((CallIdx(AxiFns) # {}) = (samples > 16384))

\* acquire() with exactly 16384 samples configured returned a direct Data.
C11_Witness ==
    /\ op.name = "acquire"
    /\ op.res = "ok"
    /\ samples = 16384
    /\ results[op.r].reader = "acq"

\* The driver calls that reset or write the hardware.
WriteFns == {"acq.reset_fpga", "acq.start", "acq.stop", "acq.set_decimation",
             "acq.set_trigger_src", "acq.set_trigger_level",
             "acq.set_trigger_delay", "acq_axi.set_decimation_factor",
             "acq_axi.set_trigger_delay", "acq_axi.set_buffer_samples",
             "acq_axi.enable"}

\* C12 (as claimed): an acquire() that fails with the insufficient-memory
\* error has issued no driver reset or write.
C12_MemoryErrorTouchesNothing ==
    (op.name = "acquire" /\ op.res = "no_memory") => CallIdx(WriteFns) = {}

\* The AXI request does not fit the reserved region.
InsufficientMemory ==
    /\ samples > 16384
    /\ EnabledCount > 0
    /\ 2 * samples * EnabledCount > hw.memSize

\* C13: with insufficient reserved memory acquire() makes no acq_axi.enable
\* and no acq_axi.set_buffer_samples call, and unless it failed earlier (the
\* previous Data not ready, a driver error) it raises the insufficient-memory
\* error.
C13_MemoryErrorBeforeBuffers ==
    (op.name = "acquire" /\ InsufficientMemory)
    => /\ CallIdx({"acq_axi.enable", "acq_axi.set_buffer_samples"}) = {}
       /\ (pc = "idle" /\ ~faulted /\ op.res # "not_ready")
          => op.res = "no_memory"

\* Both channels, 300000 samples, a region of 1,000,000 bytes.
C13_Witness ==
    /\ op.name = "acquire"
    /\ op.res = "no_memory"
    /\ ch1_enabled /\ ch2_enabled
    /\ samples = 300000
    /\ hw.memSize = 1000000

BufIdx == CallIdx({"acq_axi.set_buffer_samples"})

\* C14: the buffers programmed by an acquire() lie inside the reserved
\* region, start where the partition says and do not overlap (2 bytes per
\* sample); a successful AXI acquire() programs one for each enabled channel.
C14_BuffersPartitionRegion ==
    op.name = "acquire" =>
      /\ \A i \in BufIdx :
           LET c == op.calls[i]
           IN /\ c.arg >= hw.memStart
              /\ c.arg + 2 * samples <= hw.memStart + hw.memSize
              /\ c.ch = 1 => c.arg = hw.memStart
              /\ c.ch = 2 => c.arg = IF ch1_enabled
                                     THEN hw.memStart + hw.memSize \div 2
                                     ELSE hw.memStart
      /\ \A i, j \in BufIdx :
           op.calls[i].ch # op.calls[j].ch
           => \/ op.calls[i].arg + 2 * samples <= op.calls[j].arg
              \/ op.calls[j].arg + 2 * samples <= op.calls[i].arg
      /\ (op.res = "ok" /\ samples > 16384)
         => {op.calls[i].ch : i \in BufIdx}
              = {c \in {1, 2} : IF c = 1 THEN ch1_enabled ELSE ch2_enabled}

\* Both channels fill the two halves of an odd-sized region exactly.
C14_Witness ==
    /\ op.name = "acquire"
    /\ op.res = "ok"
    /\ ch1_enabled /\ ch2_enabled
    /\ samples = 250000
    /\ hw.memSize = 1000001
    /\ Cardinality(BufIdx) = 2

\* C15 (as claimed): every AXI sample read of channel c is given the write
\* pointer at trigger of the same channel c.
C15_ReadAtOwnWritePointer ==
    \A i \in CallIdx({"acq_axi.get_data_raw", "acq_axi.get_datav"}) :
        /\ op.calls[i].arg = op.calls[i].ch
        /\ i > 1
        /\ op.calls[i - 1].fn = "acq_axi.get_write_pointer_at_trig"
        /\ op.calls[i - 1].ch = op.calls[i].ch

\* C16: a cached time_raw has as many entries as the samples of the Data,
\* entry i being i + trigger_delay - 8192, and a cached time has the entries
\* time_raw[i] / sampling_rate; the sample count, the trigger delay and the
\* sampling rate of a Data never change.
C16_TimeAxis ==
    /\ [](\A r \in Idx :
            LET d == results[r]
            IN /\ "time_raw" \in d.cache =>
                    /\ Cardinality(DOMAIN GetTimeRaw(d)) = d.size
                    /\ \A i \in 0 .. d.size - 1 :
                         GetTimeRaw(d)[i] = i + d.trigger_delay - 8192
               /\ "time" \in d.cache =>
                    \A i \in 0 .. d.size - 1 :
                       GetTime(d)[i] = [num |-> i + d.trigger_delay - 8192,
                                        den |-> d.sampling_rate])
    /\ [][\A r \in Idx :
            /\ results'[r].size = results[r].size
            /\ results'[r].trigger_delay = results[r].trigger_delay
            /\ results'[r].sampling_rate = results[r].sampling_rate]_vars

\* The time axis of a Data of 3 samples is cached and the controller has been
\* configured for another sample count since.
C16_Witness ==
    /\ {"time_raw", "time"} \subseteq results[1].cache
    /\ results[1].size = 3
    /\ results[1].trigger_delay = 8190
    /\ samples # results[1].size

\* The longest window: ADC_BUFFER_SIZE samples at decimation 65536.
MaxWindow == Window(65536)

\* The decimations whose window holds duration t.
Fitting(t) == {d \in Decimations : FloatLeq(t, Window(d))}

\* C17: calculate_best_decimation(t) returns the smallest of the 17 powers
\* of two whose window is at least t whenever there is one; asked for exactly
\* the window of d it returns d.
C17_SmallestFittingDecimation ==
    op.name = "calculate_best_decimation" =>
      /\ Decimations = {1, 2, 4, 8, 16, 32, 64, 128, 256, 512, 1024, 2048,
                        4096, 8192, 16384, 32768, 65536}
      /\ Fitting(op.duration) # {} =>
           /\ op.res = "ok"
           /\ op.ret \in Fitting(op.duration)
           /\ \A d \in Fitting(op.duration) : op.ret <= d
      /\ \A d \in Decimations : op.duration = Window(d) => op.ret = d

\* Asked for exactly the window of decimation 256.
C17_Witness ==
    /\ op.name = "calculate_best_decimation"
    /\ op.duration = Window(256)
    /\ op.ret = 256

\* C18: calculate_best_decimation(t) fails with the no-suitable-decimation
\* error exactly when t is longer than the window of decimation 65536.
C18_FailsOnlyBeyondMaxWindow ==
    op.name = "calculate_best_decimation" =>
      /\ (op.res = "no_suitable_decimation")
           = ~FloatLeq(op.duration, MaxWindow)
      /\ FloatLeq(op.duration, MaxWindow) =>
           (op.res = "ok" /\ op.ret \in Decimations)

\* Asked for a hundred seconds.
C18_Witness ==
    /\ op.name = "calculate_best_decimation"
    /\ op.duration = FloatOfInt(100)
    /\ op.res = "no_suitable_decimation"

\* C19: set_timebase(hint) with 0 < hint <= the longest window succeeds
\* unless a driver call fails: it programs the smallest decimation whose
\* window holds the hint, stores a sample count in 1 .. 16384 and returns
\* the duration count / sampling_rate, which is at least the hint.
C19_SetTimebaseFitsHint ==
    (/\ op.name = "set_timebase"
     /\ op.duration.s = 1
     /\ FloatLeq(op.duration, MaxWindow)
     /\ op.res # "device_error")
    => /\ op.res = "ok"
       /\ osc.decimation \in Fitting(op.duration)
       /\ \A d \in Fitting(op.duration) : osc.decimation <= d
       /\ 0 < osc.amount_datapoints
       /\ osc.amount_datapoints <= 16384
       /\ op.ret = FloatDivRate(osc.amount_datapoints, osc.decimation)
       /\ FloatLeq(op.duration, op.ret)

\* C20: calculate_amount_datapoints(duration, rate) returns the least count
\* n with duration <= n / rate when that count is in 1 .. 16384, and fails
\* the assertion exactly when it is not.
C20_LeastCountOrAssertion ==
    op.name = "calculate_amount_datapoints" =>
      /\ op.res \in {"ok", "assertion"}
      /\ op.res = "ok" =>
           /\ FloatLeq(op.duration, FloatDivRate(op.ret, op.decimation))
           /\ ~FloatLeq(op.duration, FloatDivRate(op.ret - 1, op.decimation))
           /\ 0 < op.ret
           /\ op.ret <= 16384
      /\ (op.res = "assertion")
           = (op.duration.s < 1 \/ ~FloatLeq(op.duration, Window(op.decimation)))

\* The delay in samples the timebase arguments a ask for: delay * samples
\* for units "trace", ceil(delay * sampling_rate) for units "second", at
\* the sampling rate of the decimation of a.
C21_DelaySamples(a) ==
    IF a.delay_units = "second"
    THEN FloatOfInt(FloatCeil(FloatMulRate(a.delay, a.decimation)))
    ELSE FloatMulInt(a.delay, a.samples)

\* C21: configure_timebase(samples, decimation, delay, units) yields the
\* trigger delay delay_samples + 16384/2 - samples (as an integer), with
\* delay_samples = delay * samples for "trace" and ceil(delay *
\* sampling_rate) for "second"; samples=1024, decimation=1, delay=0.5,
\* "trace" gives 7680; and a following acquire(trigger_now=False) writes
\* that value with set_trigger_delay.
C21_TriggerDelayProgrammed ==
    /\ (op.name = "configure_timebase" /\ op.res = "ok") =>
         /\ op.ret = C21_DelaySamples(op.args)
         /\ ctl.trigger_delay =
              FloatTrunc(FloatAddInt(FloatAddInt(C21_DelaySamples(op.args),
                                                 8192), -op.args.samples))
         /\ (op.args = [samples |-> 1024, decimation |-> 1,
                        delay |-> FloatOfDecimal(5, 1),
                        delay_units |-> "trace"])
              => ctl.trigger_delay = 7680
    /\ (op.name = "acquire" /\ ~op.tn /\ op.res = "ok") =>
         \E i \in 1 .. Len(op.calls) :
            /\ op.calls[i].fn = "acq.set_trigger_delay"
            /\ op.calls[i].arg = ctl.trigger_delay

\* k / n as a double, for ints k and n > 0.
C22_Ratio(k, n) ==
    IF k = 0 THEN FloatZero
    ELSE LET d == BnDiv(IntToBn(Abs(k)) \o Zeros(8), n)
         IN FloatRound(Sign(k), d.q, d.r # 0, -80)

\* The delay recovered from the programmed delay and k more samples:
\* (programmed - 16384/2 + samples + k) divided by samples for "trace" and
\* by the sampling rate the conversion was made at for "second".
C22_Reversed(a, programmed, k) ==
    LET back == programmed - 8192 + a.samples + k
    IN IF a.delay_units = "second" THEN FloatDivRate(back, hw.dec)
       ELSE C22_Ratio(back, a.samples)

AskedKey == <<op.args.source, op.args.positive_edge>>

\* C24: the (source, positive_edge) tables are one-to-one: the key
\* configure_trigger looked up is the only key of common.TRIGGER_MAP and
\* of osci._TRIGGER_MAP with its native source, and inv gives it back.
C24_TableOneToOne ==
    op.name = "configure_trigger" =>
      \A map \in {TRIGGER_MAP, _TRIGGER_MAP} :
        /\ \A k \in DOMAIN map.d : map.d[k] = map.d[AskedKey] => k = AskedKey
        /\ map.inv[map.d[AskedKey]] = AskedKey

\* C25: get_trigger_settings() after configure_trigger(source, level,
\* positive_edge) returns that source and that edge, and the level the
\* hardware holds for the trigger channel at the time of the call.
C25_SettingsRoundTrip ==
    [][(/\ op.name = "configure_trigger"
        /\ op.res = "ok"
        /\ op'.name = "get_trigger_settings"
        /\ op'.res = "ok")
       => /\ op'.ret.source = op.args.source
          /\ op'.ret.positive_edge = op.args.positive_edge
          /\ op'.ret.level = hw.level[TRIGGER_CH_MAP.d[op.args.source]]]_vars

C27_NoConfigureWhileRunning ==
    [][(/\ last_data > 0
        /\ results[last_data].state = "running"
        /\ op'.name \in {"configure_timebase", "configure_trigger"})
       => /\ ctl' = ctl
          /\ samples' = samples]_vars

\* The driver calls of the last operation that are a call of fn.
CallsOf(fn) == {i \in 1 .. Len(op.calls) : op.calls[i].fn = fn}

\* acquire(trigger_now=False) wrote the configured level on the configured
\* trigger channel, the configured delay and the configured source, each
\* once.
ConfiguredTriggerWritten ==
    /\ \E i \in CallsOf("acq.reset_fpga"),
          j \in CallsOf("acq.set_decimation")
                 \cup CallsOf("acq_axi.set_decimation_factor") :
         /\ i < j
         /\ op.calls[j].arg = ctl.decimation
    /\ \E i \in CallsOf("acq.set_trigger_level") :
         /\ CallsOf("acq.set_trigger_level") = {i}
         /\ op.calls[i].ch = ctl.trigger_ch
         /\ op.calls[i].arg = ctl.trigger_level
    /\ \E i \in CallsOf("acq.set_trigger_delay") :
         /\ CallsOf("acq.set_trigger_delay") = {i}
         /\ op.calls[i].arg = ctl.trigger_delay
    /\ \E i \in CallsOf("acq.set_trigger_src") :
         /\ CallsOf("acq.set_trigger_src") = {i}
         /\ op.calls[i].arg = ctl.trigger_src

\* acquire(trigger_now=True) reset the FPGA, programmed the configured
\* decimation and set the source to NOW, and wrote no level, no delay on
\* the trigger and no other source.
TriggerNowWritten ==
    /\ \E i \in CallsOf("acq.reset_fpga"),
          j \in CallsOf("acq.set_decimation")
                 \cup CallsOf("acq_axi.set_decimation_factor") :
         /\ i < j
         /\ op.calls[j].arg = ctl.decimation
    /\ \E i \in CallsOf("acq.set_trigger_src") :
         /\ CallsOf("acq.set_trigger_src") = {i}
         /\ op.calls[i].arg = AcqTriggerSource.NOW
    /\ CallsOf("acq.set_trigger_level") = {}
    /\ CallsOf("acq.set_trigger_delay") = {}

\* C28 as stated: acquire(trigger_now=True) writes no configured level,
\* delay or source, through any driver call; acquire(trigger_now=False)
\* writes exactly the configured ones, on both paths.
C28_TriggerNowWritesNoDelay ==
    (op.name = "acquire" /\ op.res = "ok") =>
      IF op.tn
      THEN /\ TriggerNowWritten
           /\ CallsOf("acq_axi.set_trigger_delay") = {}
      ELSE ConfiguredTriggerWritten

\* C28: acquire(trigger_now=True) resets the FPGA, programs the configured
\* decimation and sets the source to NOW without acq.set_trigger_level,
\* acq.set_trigger_delay or the configured source; on the AXI path it
\* still writes the configured delay to each enabled channel with
\* acq_axi.set_trigger_delay, and only there. acquire(trigger_now=False)
\* writes exactly the configured level, delay and source on both paths.
C28_TriggerWrites ==
    (op.name = "acquire" /\ op.res = "ok") =>
      /\ IF op.tn THEN TriggerNowWritten ELSE ConfiguredTriggerWritten
      /\ \A i \in CallsOf("acq_axi.set_trigger_delay") :
           op.calls[i].arg = ctl.trigger_delay
      /\ {op.calls[i].ch : i \in CallsOf("acq_axi.set_trigger_delay")}
           = IF samples <= ADC_BUFFER_SIZE THEN {}
             ELSE {c \in {1, 2} : IF c = 1 THEN ch1_enabled ELSE ch2_enabled}

\* An AXI acquisition with trigger_now=True wrote the configured delay to
\* a channel.
C28_Witness ==
    /\ op.name = "acquire"
    /\ op.res = "ok"
    /\ op.tn
    /\ samples > ADC_BUFFER_SIZE
    /\ CallsOf("acq_axi.set_trigger_delay") # {}
    /\ TriggerNowWritten

C30_CanceledNeverNotReady ==
    (op.res = "not_ready" /\ op.r \in Idx) =>
      results[op.r].state # "canceled"

\* C31: an acquire() that succeeds appends exactly one Data, in state
\* running, and makes it _last_data; an acquire() that fails, in the
\* finalization of the previous Data or in the arming code, creates no Data
\* and leaves _last_data as it was.
C31_OneResultPerAcquire ==
    [][/\ (pc = "arming" /\ pc' = "idle") =>
          IF op'.res = "ok"
          THEN /\ Len(results') = Len(results) + 1
               /\ SubSeq(results', 1, Len(results)) = results
               /\ results'[Len(results')].state = "running"
               /\ last_data' = Len(results')
               /\ op'.r = last_data'
          ELSE /\ results' = results
               /\ last_data' = last_data
       /\ (pc = "idle" /\ pc' = "idle" /\ op'.name = "acquire") =>
          /\ Len(results') = Len(results)
          /\ last_data' = last_data
       /\ (pc = "idle" /\ pc' = "arming") =>
          /\ Len(results') = Len(results)
          /\ last_data' = last_data]_vars

\* A second acquire() succeeded: two Data exist, the new one is running and
\* is _last_data.
C31_Witness ==
    /\ op.name = "acquire"
    /\ op.res = "ok"
    /\ Len(results) = 2
    /\ last_data = 2
    /\ results[2].state = "running"

\* C32: frequency_to_decimation(at_least_hz) returns the largest
\* decimation whose sampling rate is at least at_least_hz, and fails only
\* when at_least_hz is above the maximum sampling rate.
C32_LargestDecimationAtLeast ==
    op.name = "frequency_to_decimation" =>
      LET hz == op.args.at_least_hz
      IN /\ (op.res = "value_error") = ~FloatLeq(hz, SamplingRate(1))
         /\ op.res = "ok" =>
              /\ op.ret \in Decimations
              /\ FloatLeq(hz, SamplingRate(op.ret))
              /\ \A d \in Decimations :
                    FloatLeq(hz, SamplingRate(d)) => d <= op.ret

\* C33: every arming path issues acq.reset_fpga, then acq.start, then
\* acq.set_trigger_src, in that order.
C33_ResetStartSource ==
    (op.name = "acquire" /\ op.res = "ok") =>
      \E i \in CallsOf("acq.reset_fpga"), j \in CallsOf("acq.start"),
         k \in CallsOf("acq.set_trigger_src") :
        /\ CallsOf("acq.reset_fpga") = {i}
        /\ CallsOf("acq.start") = {j}
        /\ CallsOf("acq.set_trigger_src") = {k}
        /\ i < j
        /\ j < k

\* C34: no Data reads hardware state or samples once a later acquire() of
\* the same RPAnalog has re-armed the hardware: an operation of a Data that
\* issues driver calls which read is an operation of the newest Data.
C34_ReadingCalls ==
    {i \in 1 .. Len(op.calls) :
       op.calls[i].fn \notin {"acq.stop", "acq_axi.enable"}}

C34_NoReadAfterRearm ==
    (op.name \in {"read_or_raise", "access", "cancel"}
       /\ C34_ReadingCalls # {}) =>
      op.r = Len(results)

\* C35: between operations, a Data whose state is completed has all six
\* derived vectors materialized, also after a driver call failed while it
\* was being finalized.
C35_CompletedHoldsAllVectors ==
    \A r \in Idx :
      (pc = "idle" /\ results[r].state = "completed") =>
        results[r].cache = Vectors

\* C36: channel samples are read only when the hardware reports the trigger
\* not WAITING and the buffer filled for every enabled channel of the Data,
\* on both acquisition paths, through read_or_raise() (also the one inside
\* acquire()) and through a blocking vector access.
C36_SampleReads ==
    {"acq.get_oldest_data_raw", "acq.get_oldest_datav",
     "acq_axi.get_data_raw", "acq_axi.get_datav"}

C36_Reads(o) == \E i \in 1 .. Len(o.calls) : o.calls[i].fn \in C36_SampleReads

C36_Reported(d, h) ==
    /\ h.trig # "WAITING"
    /\ (d.reader = "acq" /\ AnyEnabled(d)) => h.fill
    /\ (d.reader = "axi" /\ d.ch1_enabled) => h.axiFill[1]
    /\ (d.reader = "axi" /\ d.ch2_enabled) => h.axiFill[2]

C36_ReadOnlyWhenReported ==
    [][(/\ pc # "arming"
        /\ op'.name \in {"read_or_raise", "access", "acquire"}
        /\ C36_Reads(op')
        /\ (results' # results \/ (faulted' /\ ~faulted)))
       => C36_Reported(results[op'.r], hw)]_vars

\* C37: cancel() on a Data that a later acquire() has superseded issues no
\* acq.stop() and leaves the acquisition of the newest Data started.
C37_CancelOfSupersededStopsNothing ==
    [][(/\ pc = "idle"
        /\ op'.name = "cancel"
        /\ op'.r < Len(results))
       => /\ \A i \in 1 .. Len(op'.calls) : op'.calls[i].fn # "acq.stop"
          /\ hw'.started = hw.started]_vars

\* C38: the trigger delay the reader of a Data uses for its time axis is
\* the trigger delay the acquire() that created the Data wrote to the
\* hardware, with trigger_now False and True.
C38_DelayWrites ==
    CallsOf("acq.set_trigger_delay") \cup CallsOf("acq_axi.set_trigger_delay")

C38_ReaderDelayIsWrittenDelay ==
    (op.name = "acquire" /\ op.res = "ok") =>
      /\ C38_DelayWrites # {}
      /\ \A i \in C38_DelayWrites :
           op.calls[i].arg = results[op.r].trigger_delay

\* C39: configure_timebase(samples, decimation, delay, "second") converts
\* the delay to samples with the sampling rate of the decimation passed in
\* the call, whatever decimation the hardware holds.
C39_ConvertedAtOwnRate ==
    (op.name = "configure_timebase" /\ op.res = "ok"
       /\ op.args.delay_units = "second") =>
      op.ret = FloatOfInt(FloatCeil(FloatMulRate(op.args.delay,
                                                 op.args.decimation)))

\* C40: for an on-chip configuration, 0 < samples <= 16384, with a delay
\* between 0 and 1 trace, the trigger delay acquire() writes lies between 0
\* and the ADC buffer size.
C40_WrittenDelayInRange ==
    (op.name = "acquire" /\ op.res = "ok" /\ samples <= ADC_BUFFER_SIZE) =>
      \A i \in CallsOf("acq.set_trigger_delay") :
        /\ 0 <= op.calls[i].arg
        /\ op.calls[i].arg <= ADC_BUFFER_SIZE

====
